---- MODULE Spec2Model ----
(***************************************************************************)
(* Travel-planning workflow (LangGraph): the graph of src/src/graph.py,    *)
(* the node handlers of src/src/node.py, the driver loops of               *)
(* src/src/main.py and the checkpoint store of src/src/persistence.py and  *)
(* src/src/database.py.                                                    *)
(*                                                                         *)
(* Money is counted in fen (1 yuan = 100 fen) so that the percentages the  *)
(* handlers apply stay exact.  Python dicts are functions with a string    *)
(* domain; d.get(k, v) is Get(d, k, v).                                    *)
(***************************************************************************)
EXTENDS Integers, Sequences, FiniteSets, TLC

\* ------------------------------------------------------------------------
\* Bounds of the model
\* ------------------------------------------------------------------------
\* driver rounds (graph invocations) one process may start
MaxRounds == 4
\* resume_travel_planning calls per session
MaxResumes == 1
\* attempts values the router probes enumerate beyond M
MaxProbeAttempts == 4

\* ------------------------------------------------------------------------
\* dict helpers
\* ------------------------------------------------------------------------
Get(d, k, dflt) == IF k \in DOMAIN d THEN d[k] ELSE dflt

Put(d, k, v) == [x \in (DOMAIN d) \cup {k} |-> IF x = k THEN v ELSE d[x]]

\* {**a, **b}: the keys of b win
Merge(a, b) == [x \in (DOMAIN a) \cup (DOMAIN b) |-> IF x \in DOMAIN b THEN b[x] ELSE a[x]]

\* Python None, and the empty dict {}
None == [none |-> TRUE]
EmptyDict == [x \in {} |-> TRUE]
IsNone(x) == "none" \in DOMAIN x
\* `not x` for an Optional[dict]
Falsy(x) == IsNone(x) \/ DOMAIN x = {}

Yuan(n) == n * 100

Max2(a, b) == IF a >= b THEN a ELSE b

\* ------------------------------------------------------------------------
\* messages
\* ------------------------------------------------------------------------
HumanMessage(c) == [type |-> "HumanMessage", content |-> c]
AIMessage(c) == [type |-> "AIMessage", content |-> c]
ToolMessage(c) == [type |-> "ToolMessage", content |-> c]
Last(s) == s[Len(s)]

\* ------------------------------------------------------------------------
\* status values (spec section 4.5)
\* ------------------------------------------------------------------------
Runnable == {"processing", "planning", "continuing", "optimizing"}
Suspended == {"collecting_info", "waiting_confirmation"}
Terminal == {"completed", "terminated"}
END == "__end__"

\* ------------------------------------------------------------------------
\* src/src/graph.py: the four routers
\* ------------------------------------------------------------------------
\* a router that starts the validation chain on every planning round
after_parse_router_revalidating(state) ==
    LET control == state.control
        status == state.status
    IN  IF status = "collecting_info" THEN END
        ELSE IF status = "planning" THEN "validate_budget"
        ELSE IF status = "processing" /\ ~Get(control, "parsed_attempted", FALSE)
            THEN "parse_intent"
        ELSE IF status = "processing" /\ Get(control, "user_confirmed", FALSE)
            THEN "generate_itinerary"
        ELSE IF status = "continuing"
            THEN IF Get(control, "human_intervention_completed", FALSE)
                 THEN "generate_itinerary" ELSE END
        ELSE END

after_parse_router(state) ==
    LET control == state.control
        status == state.status
    IN  IF status = "collecting_info" THEN END
        ELSE IF status = "planning" /\ ~Get(control, "validation_completed", FALSE)
            THEN "validate_budget"
        ELSE IF status = "planning" /\ Get(control, "validation_completed", FALSE)
            THEN "start_parallel"
        ELSE IF status = "processing" /\ ~Get(control, "parsed_attempted", FALSE)
            THEN "parse_intent"
        ELSE IF status = "processing" /\ Get(control, "user_confirmed", FALSE)
            THEN "generate_itinerary"
        ELSE IF status = "continuing"
            THEN IF Get(control, "human_intervention_completed", FALSE)
                 THEN "generate_itinerary" ELSE END
        ELSE END

budget_satisfaction_router_late(state) ==
    LET control == state.control
        budget_attempts == Get(control, "budget_optimization_attempts", 0)
        budget_satisfied == Get(control, "budget_satisfied", FALSE)
        needs_human_intervention == Get(control, "needs_human_intervention", FALSE)
        is_over_budget == Get(state.cost_analysis, "is_over_budget", FALSE)
    IN  IF budget_satisfied THEN "itinerary_optimization"
        ELSE IF needs_human_intervention \/ (budget_attempts > 3 /\ is_over_budget)
            THEN "human_intervention"
        ELSE IF budget_attempts > 3 THEN "itinerary_optimization"
        ELSE "budget_optimization"

budget_satisfaction_router_noflag(state) ==
    LET control == state.control
        budget_attempts == Get(control, "budget_optimization_attempts", 0)
        budget_satisfied == Get(control, "budget_satisfied", FALSE)
        is_over_budget == Get(state.cost_analysis, "is_over_budget", FALSE)
    IN  IF budget_satisfied THEN "itinerary_optimization"
        ELSE IF budget_attempts >= 3 /\ is_over_budget THEN "human_intervention"
        ELSE IF budget_attempts >= 3 THEN "itinerary_optimization"
        ELSE "budget_optimization"

budget_satisfaction_router_unbounded(state) ==
    IF Get(state.control, "budget_satisfied", FALSE) THEN "itinerary_optimization"
    ELSE "budget_optimization"

\* a router returning a key its path map does not hold
budget_satisfaction_router_unmapped(state) ==
    LET control == state.control
        budget_attempts == Get(control, "budget_optimization_attempts", 0)
        is_over_budget == Get(state.cost_analysis, "is_over_budget", FALSE)
    IN  IF Get(control, "budget_satisfied", FALSE) THEN "itinerary_optimization"
        ELSE IF Get(control, "needs_human_intervention", FALSE)
                \/ (budget_attempts >= 3 /\ is_over_budget)
            THEN "human"
        ELSE IF budget_attempts >= 3 THEN "itinerary_optimization"
        ELSE "budget_optimization"

budget_satisfaction_router(state) ==
    LET control == state.control
        budget_attempts == Get(control, "budget_optimization_attempts", 0)
        budget_satisfied == Get(control, "budget_satisfied", FALSE)
        needs_human_intervention == Get(control, "needs_human_intervention", FALSE)
        is_over_budget == Get(state.cost_analysis, "is_over_budget", FALSE)
    IN  IF budget_satisfied THEN "itinerary_optimization"
        ELSE IF needs_human_intervention \/ (budget_attempts >= 3 /\ is_over_budget)
            THEN "human_intervention"
        ELSE IF budget_attempts >= 3 THEN "itinerary_optimization"
        ELSE "budget_optimization"

\* itinerary_score is kept in hundredths (0.85 is 85)
itinerary_satisfaction_router(state) ==
    LET control == state.control
        itinerary_attempts == Get(control, "itinerary_optimization_attempts", 0)
        itinerary_satisfied == Get(control, "itinerary_satisfied", FALSE)
        itinerary_score == Get(control, "itinerary_score", 0)
        is_over_budget == Get(state.cost_analysis, "is_over_budget", FALSE)
    IN  IF itinerary_satisfied THEN "generate_itinerary"
        ELSE IF itinerary_attempts >= 3 /\ (itinerary_score < 70 \/ is_over_budget)
            THEN "human_intervention"
        ELSE IF itinerary_attempts >= 3 THEN "generate_itinerary"
        ELSE "itinerary_optimization"

human_intervention_router_nogate(state) ==
    IF state.status = "terminated" THEN END
    ELSE IF Get(state.control, "human_intervention_completed", FALSE)
        THEN "generate_itinerary"
    ELSE "human_intervention"

human_intervention_router(state) ==
    LET status == state.status
        control == state.control
    IN  IF status = "waiting_confirmation" THEN END
        ELSE IF status = "terminated" THEN END
        ELSE IF Get(control, "human_intervention_completed", FALSE) THEN "generate_itinerary"
        ELSE "human_intervention"

\* graph.py 48-73 and 138: the names given to add_node
DeclaredNodes ==
    {"parse_intent", "validate_budget", "check_destination", "verify_travel_time",
     "check_documents", "query_flights", "query_hotels", "query_attractions",
     "aggregate_results", "budget_optimization", "check_budget_satisfaction",
     "itinerary_optimization", "check_itinerary_satisfaction", "human_intervention",
     "generate_itinerary", "write_itinerary_file", "tool_node", "start_parallel"}

\* the path maps handed to add_conditional_edges, key |-> target
TargetMaps ==
    [parse_intent |->
        [k \in {"parse_intent", "validate_budget", "start_parallel", "generate_itinerary",
                END} |-> k],
     check_budget_satisfaction |->
        [k \in {"budget_optimization", "itinerary_optimization", "human_intervention"} |-> k],
     check_itinerary_satisfaction |->
        [k \in {"itinerary_optimization", "generate_itinerary", "human_intervention"} |-> k],
     human_intervention |->
        [k \in {"human_intervention", "generate_itinerary", END} |-> k]]

\* the pairs handed to add_edge
StaticEdges ==
    {<<"validate_budget", "check_destination">>,
     <<"check_destination", "verify_travel_time">>,
     <<"verify_travel_time", "check_documents">>,
     <<"check_documents", "start_parallel">>,
     <<"start_parallel", "query_flights">>,
     <<"start_parallel", "query_hotels">>,
     <<"start_parallel", "query_attractions">>,
     <<"query_flights", "aggregate_results">>,
     <<"query_hotels", "aggregate_results">>,
     <<"query_attractions", "aggregate_results">>,
     <<"aggregate_results", "budget_optimization">>,
     <<"budget_optimization", "check_budget_satisfaction">>,
     <<"itinerary_optimization", "check_itinerary_satisfaction">>,
     <<"generate_itinerary", "write_itinerary_file">>,
     <<"write_itinerary_file", "tool_node">>,
     <<"tool_node", END>>}

\* the key the router attached to node n returns for `state`
route(n, state) ==
    CASE n = "parse_intent" -> after_parse_router(state)
      [] n = "check_budget_satisfaction" -> budget_satisfaction_router(state)
      [] n = "check_itinerary_satisfaction" -> itinerary_satisfaction_router(state)
      [] n = "human_intervention" -> human_intervention_router(state)

\* ------------------------------------------------------------------------
\* src/src/common.py
\* ------------------------------------------------------------------------
\* the marker extract_travel_info asks the LLM to use for an absent field
NotProvided == "not_provided"

required_fields == <<"destination", "days", "budget">>

\* the numeric strings the model's queries and replies use
NumTok == [x \in {"0", "3", "400", "500", "700", "1800", "5000"} |->
            CASE x = "0" -> 0 [] x = "3" -> 3 [] x = "400" -> 400 [] x = "500" -> 500
              [] x = "700" -> 700
              [] x = "1800" -> 1800 [] OTHER -> 5000]

\* parse_value(value, default): the integer a string holds, else the default
parse_value(value, default) ==
    IF value = NotProvided \/ value = "" THEN default
    ELSE IF value \in DOMAIN NumTok THEN NumTok[value]
    ELSE default

get_daily_expense(destination) ==
    CASE destination = "Yunnan" -> Yuan(300)
      [] destination = "Beijing" -> Yuan(350)
      [] destination = "Shanghai" -> Yuan(400)
      [] destination = "Sanya" -> Yuan(450)
      [] destination = "Xian" -> Yuan(250)
      [] destination = "Europe" -> Yuan(800)
      [] destination = "Japan" -> Yuan(600)
      [] destination = "Korea" -> Yuan(500)
      [] destination = "Singapore" -> Yuan(700)
      [] OTHER -> Yuan(300)

\* ------------------------------------------------------------------------
\* src/src/node.py: parse_intent
\* ------------------------------------------------------------------------
\* a process_complete_info that does not look for missing fields again
process_complete_info_unchecked(state, parsed) ==
    [state EXCEPT
        !.travel_info = [destination |-> parsed["destination"],
                         days |-> parse_value(parsed["days"], 5),
                         budget |-> Yuan(parse_value(parsed["budget"], 5000)),
                         travel_date |-> Get(parsed, "travel_date", "soon"),
                         travelers |-> Get(parsed, "travelers", "2"),
                         requirements |-> Get(parsed, "requirements", <<>>)],
        !.control = [parsed_attempted |-> TRUE, waiting_input |-> FALSE],
        !.status = "planning",
        !.messages = @ \o <<AIMessage("info_complete")>>]

process_complete_info(state, parsed) ==
    LET IsMissing(f) == Get(parsed, f, "") = "" \/ Get(parsed, f, "") = NotProvided
        missing == SelectSeq(required_fields, IsMissing)
    IN  IF missing # <<>>
        THEN [state EXCEPT
                !.control = [parsed_attempted |-> TRUE, waiting_input |-> TRUE,
                             missing |-> missing, parsed |-> parsed],
                !.status = "collecting_info",
                !.messages = @ \o <<AIMessage("need_more_info")>>]
        ELSE [state EXCEPT
                !.travel_info = [destination |-> parsed["destination"],
                                 days |-> parse_value(parsed["days"], 5),
                                 budget |-> Yuan(parse_value(parsed["budget"], 5000)),
                                 travel_date |-> Get(parsed, "travel_date", "soon"),
                                 travelers |-> Get(parsed, "travelers", "2"),
                                 requirements |-> Get(parsed, "requirements", <<>>)],
                !.control = [parsed_attempted |-> TRUE, waiting_input |-> FALSE],
                !.status = "planning",
                !.messages = @ \o <<AIMessage("info_complete")>>]

apply_defaults(state) ==
    process_complete_info(state, [destination |-> "Yunnan", days |-> "5", budget |-> "5000"])

\* a parse_intent that parses the request again on every invocation
node_parse_intent_reparsing(state, llm_parsed) ==
    LET IsMissing(f) == Get(llm_parsed, f, "") = NotProvided
        missing == SelectSeq(required_fields, IsMissing)
    IN  IF missing # <<>>
        THEN [state EXCEPT
                !.control = [parsed_attempted |-> TRUE, waiting_input |-> TRUE,
                             missing |-> missing, parsed |-> llm_parsed],
                !.status = "collecting_info",
                !.messages = @ \o <<AIMessage("need_info")>>]
        ELSE process_complete_info(state, llm_parsed)

\* lines 33-47: a state of None is replaced by an error state
ErrorState ==
    [messages |-> <<>>,
     input |-> "",
     travel_info |-> None,
     query_results |-> None,
     cost_analysis |-> None,
     itinerary |-> None,
     status |-> "error",
     control |-> None]

\* a check that also rejects a state without travel_info
check_state_strict(state) ==
    IF IsNone(state) \/ IsNone(state.travel_info) THEN ErrorState ELSE state

check_state(state) == IF IsNone(state) THEN ErrorState ELSE state

\* llm_parsed is what extract_travel_info returns for state["input"]
node_parse_intent(state, llm_parsed) ==
    IF check_state(state).status = "error" THEN check_state(state) ELSE
    LET control == state.control
    IN  IF ~Get(control, "parsed_attempted", FALSE)
        THEN LET IsMissing(f) == Get(llm_parsed, f, "") = NotProvided
                 missing == SelectSeq(required_fields, IsMissing)
             IN  IF missing # <<>>
                 THEN [state EXCEPT
                         !.control = [parsed_attempted |-> TRUE, waiting_input |-> TRUE,
                                      missing |-> missing, parsed |-> llm_parsed],
                         !.status = "collecting_info",
                         !.messages = @ \o <<AIMessage("need_info")>>]
                 ELSE process_complete_info(state, llm_parsed)
        ELSE IF Get(control, "waiting_input", FALSE)
        THEN LET last_msg == Last(state.messages)
                 user_input == last_msg.content
                 parsed == Get(control, "parsed", EmptyDict)
                 missing == Get(control, "missing", <<>>)
             IN  IF last_msg.type = "HumanMessage"
                 THEN IF user_input \in {"skip"}
                      THEN apply_defaults(state)
                      ELSE IF missing # <<>> /\ user_input # ""
                      THEN process_complete_info(state, Put(parsed, missing[1], user_input))
                      ELSE state
                 ELSE state
        ELSE state

\* ------------------------------------------------------------------------
\* src/src/node.py: the sequential validation chain
\* ------------------------------------------------------------------------
\* travel_info = state.get("travel_info", {}) followed by travel_info.get(...)
\* raises AttributeError when the key holds None
NoTravelInfo(state) == IsNone(state.travel_info)

node_validate_budget(state) ==
    LET travel_info == state.travel_info
        budget == Get(travel_info, "budget", 0)
        destination == Get(travel_info, "destination", "unknown")
        days == Get(travel_info, "days", 1)
        min_budget_per_day == get_daily_expense(destination) + Yuan(200)
        recommended_budget == min_budget_per_day * days
        budget_status == IF budget >= recommended_budget THEN "sufficient" ELSE "insufficient"
    IN  [state EXCEPT !.control =
            Put(Put(@, "budget_validated", TRUE), "budget_status", budget_status)]

node_check_destination(state) ==
    LET destination == Get(state.travel_info, "destination", "unknown")
        destination_status ==
            IF destination \in {"NorthKorea", "Afghanistan", "Syria"} THEN "restricted"
            ELSE IF destination \in {"Japan", "Korea", "Thailand", "Singapore", "Malaysia"}
                THEN "popular"
            ELSE "normal"
    IN  [state EXCEPT !.control =
            Put(Put(@, "destination_checked", TRUE), "destination_status", destination_status)]

node_verify_travel_time(state) ==
    LET departure_date == Get(state.travel_info, "departure_date", "unspecified")
        time_status == IF departure_date \in {"spring_festival", "national_day"}
                       THEN "peak_season" ELSE "normal_season"
    IN  [state EXCEPT !.control =
            Put(Put(@, "time_verified", TRUE), "time_status", time_status)]

node_check_documents(state) ==
    LET destination == Get(state.travel_info, "destination", "unknown")
        document_status ==
            IF destination \in {"Japan", "Korea", "Thailand", "Singapore", "USA", "Europe"}
                THEN "international"
            ELSE IF destination \in {"Beijing", "Shanghai", "Guangzhou", "Shenzhen",
                                     "Hangzhou", "Chengdu"}
                THEN "domestic"
            ELSE "unknown"
    IN  [state EXCEPT
            !.control = Put(Put(Put(@, "documents_checked", TRUE),
                                "document_status", document_status),
                            "validation_completed", TRUE),
            !.status = "processing"]

\* ------------------------------------------------------------------------
\* src/src/node.py and src/src/tool.py: the three query branches.
\* Each returns a patch holding its own key only; ok = FALSE is the tool
\* call raising inside the branch's try block.
\* ------------------------------------------------------------------------
\* one price out of the tools' random ranges
FlightPrice == Yuan(2000)
HotelPricePerNight == Yuan(400)

\* a flight branch whose failure also marks the hotel query as failed
node_query_flights_clobbering(state, ok) ==
    IF ok THEN [flight_info |-> [type |-> "flight", price |-> FlightPrice]]
    ELSE [flight_info |-> [error |-> "tool_error", price |-> 0],
          hotel_info |-> [error |-> "tool_error", total_price |-> 0]]

node_query_flights(state, ok) ==
    IF ok THEN [flight_info |-> [type |-> "flight", price |-> FlightPrice]]
    ELSE [flight_info |-> [error |-> "tool_error", price |-> 0]]

\* a hotel branch that returns the flight key it read along with its own
node_query_hotels_echoing(state, ok) ==
    LET d == Get(state.travel_info, "days", 0)
        days == IF d <= 0 THEN 5 ELSE d
    IN  IF ok THEN [hotel_info |-> [type |-> "hotel",
                                    total_price |-> HotelPricePerNight * (days - 1)],
                    flight_info |-> state.flight_info]
        ELSE [hotel_info |-> [error |-> "tool_error", total_price |-> 0],
              flight_info |-> state.flight_info]

node_query_hotels(state, ok) ==
    LET d == Get(state.travel_info, "days", 0)
        days == IF d <= 0 THEN 5 ELSE d
    IN  IF ok THEN [hotel_info |-> [type |-> "hotel",
                                    total_price |-> HotelPricePerNight * (days - 1)]]
        ELSE [hotel_info |-> [error |-> "tool_error", total_price |-> 0]]

node_query_attractions(state, ok) ==
    IF ok THEN [attractions_info |-> [type |-> "attractions",
                                      attractions |-> <<"sight_1", "sight_2">>]]
    ELSE [attractions_info |-> [error |-> "tool_error", attractions |-> <<>>]]

node_aggregate_parallel_results(state) ==
    LET query_results == [flight |-> state.flight_info,
                          hotel |-> state.hotel_info,
                          attractions |-> state.attractions_info]
    IN  [state EXCEPT !.query_results = query_results,
                      !.messages = @ \o <<AIMessage("queries_done")>>]

\* ------------------------------------------------------------------------
\* src/src/node.py: the budget loop's work node
\* ------------------------------------------------------------------------
LuxuryWords == {"luxury", "five_star", "first_class", "deluxe"}

has_luxury_requirements(travel_info) ==
    LET requirements == Get(travel_info, "requirements", <<>>)
    IN  \E i \in 1..Len(requirements) : requirements[i] \in LuxuryWords

\* the floor of each cost item, in the order of min_costs
min_costs == [flight |-> Yuan(300), hotel |-> Yuan(100), daily |-> Yuan(80), other |-> Yuan(50)]

\* int(original_cost * (1 - total_savings / total_cost)), a whole number of yuan
reduced_cost(original_cost, total_savings, total_cost) ==
    Yuan(((original_cost \div 100) * (total_cost - total_savings)) \div total_cost)

\* the first-pass evaluation of lines 1300-1330
evaluate_cost(state) ==
    LET query_results == state.query_results
        travel_info == state.travel_info
        flight_cost == Get(Get(query_results, "flight", EmptyDict), "price", 0)
        hotel_cost == Get(Get(query_results, "hotel", EmptyDict), "total_price", 0)
        days == Get(travel_info, "days", 5)
        destination == Get(travel_info, "destination", "Yunnan")
        budget == Get(travel_info, "budget", Yuan(5000))
        total_daily_cost == get_daily_expense(destination) * days
        other_costs == Yuan(500)
        total_cost == flight_cost + hotel_cost + total_daily_cost + other_costs
    IN  [total_cost |-> total_cost,
         budget |-> budget,
         is_over_budget |-> total_cost > budget,
         budget_remaining |-> budget - total_cost,
         cost_breakdown |-> [flight |-> flight_cost, hotel |-> hotel_cost,
                             daily |-> total_daily_cost, other |-> other_costs]]

\* the handler raises when a dict it reads with .get() is None
budget_optimization_raises(state) ==
    \/ IsNone(state.travel_info)
    \/ Falsy(state.cost_analysis) /\ IsNone(state.query_results)

\* a local of the handler: assigned once, then read as a value
Local(value, Rest(_)) == CHOOSE r \in {Rest(v) : v \in {value}} : TRUE

\* lines 1332-1474, once cost_analysis is known
optimize_over_budget(state, cost_analysis, attempts) ==
    LET control == state.control
        total_cost == Get(cost_analysis, "total_cost", 0)
        budget == Get(state.travel_info, "budget", 0)
        over_amount == total_cost - budget
        luxury == has_luxury_requirements(state.travel_info)
        \* 15% + 10% + 5% of the overspend, or 40% + 30% + 30% of it
        total_savings == IF luxury /\ 2 * over_amount > budget
                         THEN (over_amount * 30) \div 100
                         ELSE over_amount
        optimized_cost == total_cost - total_savings
    IN  IF total_cost > budget * 5
        THEN [state EXCEPT
                !.control = Put(control, "needs_human_intervention", TRUE),
                !.cost_analysis = cost_analysis]
        ELSE
        LET budget_satisfied == optimized_cost <= budget
            control1 == IF ~budget_satisfied /\ luxury /\ attempts >= 2 /\ attempts >= 3
                        THEN Put(control, "needs_human_intervention", TRUE)
                        ELSE control
            control2 == Put(Put(Put(control1, "budget_optimization_attempts", attempts),
                                "budget_satisfied", budget_satisfied),
                            "optimized_cost", optimized_cost)
            updated1 == Put(Put(Put(cost_analysis, "total_cost", optimized_cost),
                                "is_over_budget", ~budget_satisfied),
                            "budget_remaining", budget - optimized_cost)
            original_breakdown == Get(cost_analysis, "cost_breakdown", EmptyDict)
        IN  IF total_cost > 0
            THEN Local([item \in DOMAIN original_breakdown |->
                          Max2(reduced_cost(original_breakdown[item], total_savings,
                                            total_cost),
                               min_costs[item])],
                       LAMBDA updated_breakdown :
                 Local(LET Val(i) == IF i \in DOMAIN updated_breakdown
                                     THEN updated_breakdown[i] ELSE 0
                       IN  Val("flight") + Val("hotel") + Val("daily") + Val("other"),
                       LAMBDA actual_optimized_cost :
                 [state EXCEPT
                    !.control = IF actual_optimized_cost > budget * 2
                                THEN Put(control2, "needs_human_intervention", TRUE)
                                ELSE control2,
                    !.cost_analysis =
                        Put(Put(Put(updated1, "total_cost", actual_optimized_cost),
                                "cost_breakdown", updated_breakdown),
                            "budget_remaining", budget - actual_optimized_cost)]))
            ELSE [state EXCEPT !.control = control2, !.cost_analysis = updated1]

\* a work node that starts every pass with the escalation flag cleared
node_budget_optimization_clearing(state) ==
    LET cleared == [state EXCEPT !.control = Put(@, "needs_human_intervention", FALSE)]
        attempts == Get(state.control, "budget_optimization_attempts", 0) + 1
        first == Falsy(state.cost_analysis)
    IN  Local(IF first THEN evaluate_cost(state) ELSE state.cost_analysis,
              LAMBDA cost_analysis :
              IF first /\ ~cost_analysis["is_over_budget"]
              THEN [cleared EXCEPT
                      !.cost_analysis = cost_analysis,
                      !.control = Put(Put(@, "budget_satisfied", TRUE),
                                      "budget_optimization_attempts", attempts)]
              ELSE optimize_over_budget(cleared, cost_analysis, attempts))

\* a work node that optimizes whether or not the budget is exceeded
node_budget_optimization_eager(state) ==
    LET attempts == Get(state.control, "budget_optimization_attempts", 0) + 1
    IN  Local(IF Falsy(state.cost_analysis) THEN evaluate_cost(state)
              ELSE state.cost_analysis,
              LAMBDA cost_analysis : optimize_over_budget(state, cost_analysis, attempts))

\* a work node that never raises the escalation flag
node_budget_optimization_unflagged(state) ==
    LET attempts == Get(state.control, "budget_optimization_attempts", 0) + 1
        first == Falsy(state.cost_analysis)
    IN  Local(IF first THEN evaluate_cost(state) ELSE state.cost_analysis,
              LAMBDA cost_analysis :
              IF first /\ ~cost_analysis["is_over_budget"]
              THEN [state EXCEPT
                      !.cost_analysis = cost_analysis,
                      !.control = Put(Put(@, "budget_satisfied", TRUE),
                                      "budget_optimization_attempts", attempts)]
              ELSE [optimize_over_budget(state, cost_analysis, attempts) EXCEPT
                      !.control = Put(@, "needs_human_intervention", FALSE)])

node_budget_optimization(state) ==
    LET control == state.control
        attempts == Get(control, "budget_optimization_attempts", 0) + 1
        first == Falsy(state.cost_analysis)
    IN  Local(IF first THEN evaluate_cost(state) ELSE state.cost_analysis,
              LAMBDA cost_analysis :
              IF first /\ ~cost_analysis["is_over_budget"]
              THEN [state EXCEPT
                      !.cost_analysis = cost_analysis,
                      !.control = Put(Put(control, "budget_satisfied", TRUE),
                                      "budget_optimization_attempts", attempts)]
              ELSE optimize_over_budget(state, cost_analysis, attempts))

node_check_budget_satisfaction(state) == state

\* ------------------------------------------------------------------------
\* src/src/node.py: the itinerary loop's work node (scores in hundredths)
\* ------------------------------------------------------------------------
\* a work node whose score improves by 0.05 per attempt
node_itinerary_optimization_slow(state) ==
    LET control == state.control
        attempts == Get(control, "itinerary_optimization_attempts", 0) + 1
        raw == 60 + attempts * 5
        current_score == IF raw > 95 THEN 95 ELSE raw
        itinerary_satisfied == current_score >= 85
    IN  [state EXCEPT !.control =
            Put(Put(Put(control, "itinerary_optimization_attempts", attempts),
                    "itinerary_satisfied", itinerary_satisfied),
                "itinerary_score", current_score)]

node_itinerary_optimization(state) ==
    LET control == state.control
        attempts == Get(control, "itinerary_optimization_attempts", 0) + 1
        raw == 60 + attempts * 15
        current_score == IF raw > 95 THEN 95 ELSE raw
        itinerary_satisfied == current_score >= 85
    IN  [state EXCEPT !.control =
            Put(Put(Put(control, "itinerary_optimization_attempts", attempts),
                    "itinerary_satisfied", itinerary_satisfied),
                "itinerary_score", current_score)]

node_check_itinerary_satisfaction(state) == state

\* ------------------------------------------------------------------------
\* src/src/node.py: the human gate, itinerary generation, file writing
\* ------------------------------------------------------------------------
\* the reduction (in percent) both the node and the driver derive from the
\* overspend ratio: above 0.3, above 0.2, otherwise
rate_for(overspend, budget) ==
    IF overspend * 10 > budget * 3 THEN 25
    ELSE IF overspend * 10 > budget * 2 THEN 20
    ELSE 15

\* cost_analysis.get(...) on None, and overspend / budget with budget 0
human_intervention_raises(state) ==
    \/ IsNone(state.cost_analysis)
    \/ Get(state.cost_analysis, "budget", 0) = 0

\* lines 970-988: the overspend, then the advice for the overspend ratio
suggestions_for(overspend, budget) ==
    <<"overspend">> \o
    (IF overspend * 10 > budget * 3 THEN <<"adjust_destination_or_days", "save_25">>
     ELSE IF overspend * 10 > budget * 2 THEN <<"economy_hotel", "adjust_flight", "save_20">>
     ELSE <<"reduce_shopping", "save_15">>)

\* a gate that rebuilds _control instead of extending it
node_human_intervention_forgetful(state) ==
    [state EXCEPT
        !.status = "waiting_confirmation",
        !.control = [waiting_confirmation |-> TRUE, suggestions |-> <<"overspend">>],
        !.messages = @ \o <<AIMessage("over_budget_choose")>>]

node_human_intervention(state) ==
    LET messages == state.messages
        cost_analysis == state.cost_analysis
        total_cost == Get(cost_analysis, "total_cost", 0)
        budget == Get(cost_analysis, "budget", 0)
        control0 == state.control
        interactive_mode == Get(control0, "interactive_mode", TRUE)
        control == IF ~interactive_mode
                   THEN Put(Put(control0, "user_confirmed", TRUE), "user_choice", "accept")
                   ELSE control0
        overspend == total_cost - budget
        reduction_rate == rate_for(overspend, budget)
        user_choice == Get(control, "user_choice", "accept")
    IN  IF Get(control, "user_confirmed", FALSE)
        THEN IF user_choice = "accept"
             THEN LET adjusted_total == (total_cost * (100 - reduction_rate)) \div 100
                      human_adjustment == [adjusted_total |-> adjusted_total,
                                           reduction_rate |-> reduction_rate]
                  IN  [state EXCEPT
                        !.cost_analysis = Put(Put(Put(cost_analysis, "total_cost", adjusted_total),
                                                  "is_over_budget", adjusted_total > budget),
                                              "human_adjustment", human_adjustment),
                        !.status = "planning",
                        !.control = Put(Put(control, "optimization_applied", TRUE),
                                        "human_intervention_completed", TRUE),
                        !.messages = messages \o <<AIMessage("optimization_applied")>>]
             ELSE IF user_choice = "reject"
             THEN [state EXCEPT
                        !.status = "terminated",
                        !.control = Put(Put(control, "human_intervention_completed", TRUE),
                                        "planning_terminated", TRUE),
                        !.messages = messages \o <<AIMessage("planning_terminated")>>]
             ELSE [state EXCEPT
                        !.status = "planning",
                        !.control = Put(Put(control, "optimization_applied", TRUE),
                                        "human_intervention_completed", TRUE),
                        !.messages = messages \o <<AIMessage("kept_original")>>]
        ELSE [state EXCEPT
                !.status = "waiting_confirmation",
                !.control = Put(Put(Put(control, "waiting_confirmation", TRUE),
                                    "suggestions", suggestions_for(overspend, budget)),
                                "overspend", overspend),
                !.messages = messages \o <<AIMessage("over_budget_choose")>>]

\* travel_info.get / query_results.get / cost_analysis.get on None
generate_itinerary_raises(state) ==
    \/ IsNone(state.travel_info)
    \/ IsNone(state.query_results)
    \/ IsNone(state.cost_analysis)

\* the text the LLM returns is one opaque non-empty itinerary
node_generate_itinerary(state) ==
    [state EXCEPT !.itinerary = [text |-> "itinerary"],
                  !.status = "completed",
                  !.messages = @ \o <<AIMessage("planning_completed")>>]

write_itinerary_file_raises(state) == IsNone(state.travel_info)

\* AIMessage(content=..., tool_calls=[tool_call])
AIToolCall(c, tool) == [type |-> "AIMessage", content |-> c, tool_calls |-> <<tool>>]

node_write_itinerary_file(state) ==
    IF check_state(state).status = "error" THEN check_state(state)
    ELSE IF Falsy(state.itinerary) THEN state
    ELSE [state EXCEPT !.messages =
            @ \o <<AIToolCall("saving_to_file", "write_itinerary_to_file")>>]

\* ToolNode runs the tool call of the last message and appends its result;
\* a failing tool is reported in the ToolMessage, not raised
tool_node(state, ok) ==
    [state EXCEPT !.messages =
        @ \o <<ToolMessage(IF ok THEN "file_written" ELSE "tool_error")>>]

\* ------------------------------------------------------------------------
\* src/src/main.py: the three decisions at the human gate
\* ------------------------------------------------------------------------
\* the rate handle_human_intervention_input passes to handle_accept_optimization
optimization_rate_of(state) ==
    LET cost_analysis == state.cost_analysis
        total_cost == Get(cost_analysis, "total_cost", 0)
        budget == Get(cost_analysis, "budget", 0)
    IN  IF budget > 0 THEN rate_for(total_cost - budget, budget) ELSE 15

handle_accept_optimization(state, optimization_rate) ==
    [state EXCEPT
        !.status = "optimizing",
        !.control = Put(Put(Put(Put(@, "human_intervention_completed", TRUE),
                                "user_choice", "accept"),
                            "optimization_applied", TRUE),
                        "optimization_rate", optimization_rate),
        !.messages = @ \o <<AIMessage("accepted_optimization")>>]

handle_keep_original_applied(state) ==
    [state EXCEPT
        !.status = "continuing",
        !.control = Put(Put(Put(@, "human_intervention_completed", TRUE),
                            "user_choice", "keep"),
                        "optimization_applied", TRUE),
        !.messages = @ \o <<AIMessage("kept_original")>>]

handle_keep_original(state) ==
    [state EXCEPT
        !.status = "continuing",
        !.control = Put(Put(Put(@, "human_intervention_completed", TRUE),
                            "user_choice", "keep"),
                        "optimization_applied", FALSE),
        !.messages = @ \o <<AIMessage("kept_original")>>]

handle_terminate_planning(state) ==
    [state EXCEPT
        !.status = "terminated",
        !.control = Put(Put(Put(@, "human_intervention_completed", TRUE),
                            "user_choice", "reject"),
                        "planning_terminated", TRUE),
        !.messages = @ \o <<AIMessage("planning_terminated")>>]

handle_human_intervention_input(state, user_input) ==
    CASE user_input = "accept" -> handle_accept_optimization(state, optimization_rate_of(state))
      [] user_input = "keep" -> handle_keep_original(state)
      [] OTHER -> handle_terminate_planning(state)

\* ------------------------------------------------------------------------
\* src/src/database.py and src/src/persistence.py: the checkpoint store
\* ------------------------------------------------------------------------
\* get_latest_state rebuilds HumanMessage and AIMessage objects only
\* save_travel_state stores type, content and additional_kwargs of a message
stored_message(m) == [type |-> m.type, content |-> m.content]

restore_messages(messages) ==
    LET kept == SelectSeq(messages, LAMBDA m : m.type \in {"HumanMessage", "AIMessage"})
    IN  [i \in 1..Len(kept) |-> stored_message(kept[i])]

\* the row with the highest step_number, the newest one among equals
get_latest_state(rows) ==
    LET best == CHOOSE i \in 1..Len(rows) :
                    \A j \in 1..Len(rows) :
                        \/ rows[j].step_number < rows[i].step_number
                        \/ rows[j].step_number = rows[i].step_number /\ j <= i
    IN  [state_data |-> [rows[best].state_data EXCEPT !.messages = restore_messages(@)],
         step_number |-> rows[best].step_number,
         node_name |-> rows[best].node_name]

\* ------------------------------------------------------------------------
\* The program's state
\* ------------------------------------------------------------------------
VARIABLES
    query,              \* what the LLM extracts from the user's query
    interactive,        \* the driver's interactive argument
    enable_persistence, \* run_travel_planning's enable_persistence argument
    keep_history,       \* FALSE: histories no handler reads are not kept
    write_fails,        \* TRUE: the INSERT of save_travel_state may raise
    proc,               \* "run" or "resume": the driver function executing
    pc,                 \* the driver's position
    current_state,      \* the driver's current_state
    final_state,        \* the driver's final_state: the last streamed event
    node,               \* the graph's next super-step, END after the last
    patches,            \* the writes of the fan-out branches that have finished
    step_count,         \* the driver's round counter
    step_counter,       \* PersistentTravelPlanner.step_counter
    travel_states,      \* the rows of table travel_states, in insertion order
    session,            \* travel_sessions.status of the session
    returned,           \* what the driver function returned
    resumes,            \* resume_travel_planning calls so far
    rounds,             \* rounds the executing driver function has started
    tool_errors,        \* tool calls that have failed so far
    ran,                \* nodes executed in the current graph invocation
    decided,            \* the last decision taken at the human gate
    probe               \* a router probe: its input state and the routes returned

vars == <<query, interactive, enable_persistence, keep_history, write_fails, proc, pc,
          current_state,
          final_state, node, patches, step_count, step_counter, travel_states, session,
          returned, resumes, rounds, tool_errors, ran, decided, probe>>

\* tool calls that may fail in one behaviour
MaxToolErrors == 2

Destinations == {"Dali", NotProvided}
DaysTokens == {"3", NotProvided}
BudgetTokens == {"0", "500", "1800", "5000", NotProvided}
RequirementLists == {<<>>, <<"luxury">>}
\* what the user may type when asked for a missing field
Replies == {"", "skip", "3"}
Decisions == {"accept", "keep", "terminate"}

Queries ==
    {[destination |-> d, days |-> n, budget |-> b, requirements |-> r] :
        d \in Destinations, n \in DaysTokens, b \in BudgetTokens, r \in RequirementLists}

\* src/src/main.py 164-173
initial_state(i) ==
    [messages |-> <<HumanMessage("query")>>,
     input |-> "query",
     travel_info |-> None,
     query_results |-> None,
     cost_analysis |-> None,
     itinerary |-> None,
     status |-> "collecting_info",
     control |-> [interactive_mode |-> i],
     flight_info |-> None,
     hotel_info |-> None,
     attractions_info |-> None]

NoProbe == [used |-> FALSE]

\* the state run_travel_planning starts from, whatever the request
InitRun ==
    /\ interactive \in BOOLEAN
    /\ proc = "run"
    /\ pc = "start"
    /\ current_state = initial_state(interactive)
    /\ final_state = None
    /\ node = END
    /\ patches = EmptyDict
    /\ step_count = 0
    /\ step_counter = 0
    /\ travel_states = <<>>
    /\ session = IF enable_persistence THEN "active" ELSE "none"
    /\ returned = None
    /\ resumes = 0
    /\ rounds = 0
    /\ tool_errors = 0
    /\ ran = <<>>
    /\ decided = None
    /\ probe = NoProbe

InitCommon ==
    /\ query \in Queries
    /\ InitRun

Init ==
    /\ enable_persistence \in BOOLEAN
    /\ keep_history = TRUE
    /\ write_fails = FALSE
    /\ InitCommon

\* ------------------------------------------------------------------------
\* The engine: one super-step per action, its event streamed to the driver
\* ------------------------------------------------------------------------
\* Handlers read messages[-1] only; without history the older ones are dropped
Norm(state) ==
    IF keep_history \/ Len(state.messages) <= 1 THEN state
    ELSE [state EXCEPT !.messages = <<Last(@)>>]

persistent == proc = "resume" \/ enable_persistence

\* writes that may fail in one behaviour
MaxWriteFailures == 1

\* saves that did not store a row
FailedWrites == step_counter - Len(travel_states)

\* src/src/persistence.py 30-53 with database.py 142-173: the counter is
\* advanced, then the row is inserted, or the INSERT raises and
\* save_travel_state returns False (lines 171-173)
save_state(state, node_name) ==
    /\ step_counter' = step_counter + 1
    /\ \/ travel_states' = Append(travel_states,
                                  [step_number |-> step_counter + 1,
                                   node_name |-> node_name,
                                   state_data |-> state])
       \/ /\ write_fails
          /\ FailedWrites < MaxWriteFailures
          /\ travel_states' = travel_states

\* save_travel_state fails (database.py 171-173): the exception is swallowed
\* after the counter has been advanced
save_state_failed ==
    /\ step_counter' = step_counter + 1
    /\ travel_states' = travel_states

\* src/src/persistence.py 265-290: a new planner and the latest state
resume_session ==
    IF travel_states = <<>>
    THEN [step_counter |-> 0, latest_state |-> None]
    ELSE LET latest_state_info == get_latest_state(travel_states)
         IN  [step_counter |-> latest_state_info.step_number,
              latest_state |-> latest_state_info.state_data]

round_label ==
    [prefix |-> IF proc = "run" THEN "step" ELSE "resume_step", round |-> step_count + 1]

\* a driver that drops the event whose save failed
OnEvent_losing(event) ==
    /\ IF persistent THEN save_state(event, round_label)
       ELSE UNCHANGED <<step_counter, travel_states>>
    /\ final_state' = IF persistent /\ travel_states' = travel_states THEN final_state
                      ELSE event

\* the body of the driver's `async for event in app.astream(...)`
OnEvent(event) ==
    /\ final_state' = event
    /\ IF persistent THEN save_state(event, round_label)
       ELSE UNCHANGED <<step_counter, travel_states>>

DriverFrame == <<query, interactive, enable_persistence, keep_history, write_fails, proc, pc,
                 current_state, step_count, session, returned, resumes, rounds, decided,
                 probe>>

\* node n has produced `result`; the engine streams it and schedules nxt
Step(n, result, nxt) ==
    /\ \E event \in {Norm(result)} : OnEvent(event)
    /\ node' = nxt
    /\ ran' = Append(ran, n)
    /\ patches' = patches
    /\ UNCHANGED DriverFrame

At(n) == pc = "stream" /\ node = n

\* ------------------------------------------------------------------------
\* The graph of src/src/graph.py: one action per node
\* ------------------------------------------------------------------------
ParseIntent ==
    /\ At("parse_intent")
    /\ LET result == node_parse_intent(final_state, query)
       IN  Step("parse_intent", result, after_parse_router(result))
    /\ UNCHANGED tool_errors

ValidateBudget ==
    /\ At("validate_budget")
    /\ ~NoTravelInfo(final_state)
    /\ Step("validate_budget", node_validate_budget(final_state), "check_destination")
    /\ UNCHANGED tool_errors

CheckDestination ==
    /\ At("check_destination")
    /\ Step("check_destination", node_check_destination(final_state), "verify_travel_time")
    /\ UNCHANGED tool_errors

VerifyTravelTime ==
    /\ At("verify_travel_time")
    /\ Step("verify_travel_time", node_verify_travel_time(final_state), "check_documents")
    /\ UNCHANGED tool_errors

CheckDocuments ==
    /\ At("check_documents")
    /\ Step("check_documents", node_check_documents(final_state), "start_parallel")
    /\ UNCHANGED tool_errors

\* start_parallel_node returns the state as it is; its three successors form
\* one super-step
StartParallel ==
    /\ At("start_parallel")
    /\ Step("start_parallel", final_state, "queries")
    /\ UNCHANGED tool_errors

Branches == {"query_flights", "query_hotels", "query_attractions"}

\* an engine that schedules aggregate_results as soon as one branch finishes
Branch_first(b, patch, ok) ==
    /\ At("queries")
    /\ b \notin DOMAIN patches
    /\ ok \/ tool_errors < MaxToolErrors
    /\ tool_errors' = IF ok THEN tool_errors ELSE tool_errors + 1
    /\ ran' = Append(ran, b)
    /\ OnEvent(Norm(Merge(final_state, patch)))
    /\ patches' = EmptyDict
    /\ node' = "aggregate_results"
    /\ UNCHANGED DriverFrame

\* a branch finishes; the last one to finish ends the super-step, whose writes
\* (one key per branch) are applied together before the event is streamed
Branch(b, patch, ok) ==
    /\ At("queries")
    /\ b \notin DOMAIN patches
    /\ ok \/ tool_errors < MaxToolErrors
    /\ tool_errors' = IF ok THEN tool_errors ELSE tool_errors + 1
    /\ ran' = Append(ran, b)
    /\ LET done == Put(patches, b, patch)
       IN  IF DOMAIN done = Branches
           THEN /\ OnEvent(Norm(Merge(Merge(Merge(final_state, done["query_flights"]),
                                            done["query_hotels"]),
                                      done["query_attractions"])))
                /\ patches' = EmptyDict
                /\ node' = "aggregate_results"
           ELSE /\ patches' = done
                /\ UNCHANGED <<final_state, node, step_counter, travel_states>>
    /\ UNCHANGED DriverFrame

QueryFlights ==
    \E ok \in BOOLEAN : Branch("query_flights", node_query_flights(final_state, ok), ok)

QueryHotels ==
    \E ok \in BOOLEAN : Branch("query_hotels", node_query_hotels(final_state, ok), ok)

QueryAttractions ==
    \E ok \in BOOLEAN : Branch("query_attractions", node_query_attractions(final_state, ok), ok)

AggregateResults ==
    /\ At("aggregate_results")
    /\ Step("aggregate_results", node_aggregate_parallel_results(final_state),
            "budget_optimization")
    /\ UNCHANGED tool_errors

BudgetOptimization ==
    /\ At("budget_optimization")
    /\ ~budget_optimization_raises(final_state)
    /\ Step("budget_optimization", node_budget_optimization(final_state),
            "check_budget_satisfaction")
    /\ UNCHANGED tool_errors

CheckBudgetSatisfaction ==
    /\ At("check_budget_satisfaction")
    /\ LET result == node_check_budget_satisfaction(final_state)
       IN  Step("check_budget_satisfaction", result, budget_satisfaction_router(result))
    /\ UNCHANGED tool_errors

ItineraryOptimization ==
    /\ At("itinerary_optimization")
    /\ Step("itinerary_optimization", node_itinerary_optimization(final_state),
            "check_itinerary_satisfaction")
    /\ UNCHANGED tool_errors

CheckItinerarySatisfaction ==
    /\ At("check_itinerary_satisfaction")
    /\ LET result == node_check_itinerary_satisfaction(final_state)
       IN  Step("check_itinerary_satisfaction", result, itinerary_satisfaction_router(result))
    /\ UNCHANGED tool_errors

HumanIntervention ==
    /\ At("human_intervention")
    /\ ~human_intervention_raises(final_state)
    /\ LET result == node_human_intervention(final_state)
       IN  Step("human_intervention", result, human_intervention_router(result))
    /\ UNCHANGED tool_errors

GenerateItinerary ==
    /\ At("generate_itinerary")
    /\ ~generate_itinerary_raises(final_state)
    /\ Step("generate_itinerary", node_generate_itinerary(final_state), "write_itinerary_file")
    /\ UNCHANGED tool_errors

WriteItineraryFile ==
    /\ At("write_itinerary_file")
    /\ Step("write_itinerary_file", node_write_itinerary_file(final_state), "tool_node")
    /\ UNCHANGED tool_errors

ToolNode ==
    /\ At("tool_node")
    /\ \E ok \in BOOLEAN :
        /\ ok \/ tool_errors < MaxToolErrors
        /\ tool_errors' = IF ok THEN tool_errors ELSE tool_errors + 1
        /\ Step("tool_node", tool_node(final_state, ok), END)

\* a handler raises: the exception leaves astream and the driver function
raises(n, state) ==
    CASE n = "validate_budget" -> NoTravelInfo(state)
      [] n = "budget_optimization" -> budget_optimization_raises(state)
      [] n = "human_intervention" -> human_intervention_raises(state)
      [] n = "generate_itinerary" -> generate_itinerary_raises(state)
      [] OTHER -> FALSE

NodeRaises ==
    /\ pc = "stream"
    /\ raises(node, final_state)
    /\ pc' = "crashed"
    /\ UNCHANGED <<query, interactive, enable_persistence, keep_history, write_fails, proc,
                   current_state,
                   final_state, node, patches, step_count, step_counter, travel_states,
                   session, returned, resumes, rounds, tool_errors, ran, decided, probe>>

\* ------------------------------------------------------------------------
\* src/src/main.py: the driver loops of run_travel_planning and
\* resume_travel_planning
\* ------------------------------------------------------------------------
GraphFrame == <<query, enable_persistence, keep_history, write_fails, node, patches, rounds,
                tool_errors,
                probe>>

\* step_count is read for labels only; without history it saturates
next_step_count ==
    IF keep_history \/ step_count < MaxRounds THEN step_count + 1 ELSE step_count

\* the top of the loop: astream applies the input and streams it first
StartRound ==
    /\ pc = "start"
    /\ ~keep_history \/ rounds < MaxRounds
    /\ rounds' = IF keep_history THEN rounds + 1 ELSE rounds
    /\ pc' = "stream"
    /\ OnEvent(Norm(current_state))
    /\ node' = "parse_intent"
    /\ ran' = <<>>
    /\ UNCHANGED <<query, interactive, enable_persistence, keep_history, write_fails, proc,
                   current_state,
                   patches, step_count, session, returned, resumes, tool_errors, decided,
                   probe>>

StreamEnded == pc = "stream" /\ node = END

NeedsInput ==
    /\ final_state.status \in Suspended
    /\ Last(final_state.messages).type = "AIMessage"

\* lines 207-218 and 339-352: the decision typed at the human gate
HumanDecision ==
    /\ StreamEnded
    /\ NeedsInput
    /\ interactive
    /\ final_state.status = "waiting_confirmation"
    /\ \E user_input \in Decisions :
        LET next_state == Norm(handle_human_intervention_input(final_state, user_input))
        IN  /\ current_state' = next_state
            /\ decided' = [choice |-> user_input, state |-> final_state]
            /\ pc' = IF next_state.status = "terminated" THEN "finish" ELSE "start"
    /\ step_count' = next_step_count
    /\ UNCHANGED <<interactive, proc, final_state, step_counter, travel_states, session,
                   returned, resumes, ran>>
    /\ UNCHANGED GraphFrame

\* lines 219-228 and 353-363: the reply typed when a field is missing
UserReply ==
    /\ StreamEnded
    /\ NeedsInput
    /\ interactive
    /\ final_state.status # "waiting_confirmation"
    /\ \E user_response \in Replies :
        current_state' = Norm([final_state EXCEPT
            !.messages = @ \o <<HumanMessage(user_response)>>,
            !.status = IF proc = "run" THEN "planning" ELSE "processing"])
    /\ pc' = "start"
    /\ step_count' = next_step_count
    /\ UNCHANGED <<interactive, proc, final_state, step_counter, travel_states, session,
                   returned, resumes, ran, decided>>
    /\ UNCHANGED GraphFrame

\* lines 229-235: run_travel_planning without a user
AutoContinue ==
    /\ StreamEnded
    /\ NeedsInput
    /\ ~interactive
    /\ proc = "run"
    /\ current_state' = [final_state EXCEPT !.status = "planning"]
    /\ pc' = "start"
    /\ step_count' = next_step_count
    /\ UNCHANGED <<interactive, proc, final_state, step_counter, travel_states, session,
                   returned, resumes, ran, decided>>
    /\ UNCHANGED GraphFrame

\* every `break` of the loop but the one after a terminate decision
LoopExit ==
    /\ StreamEnded
    /\ ~NeedsInput \/ (~interactive /\ proc = "resume")
    /\ pc' = "finish"
    /\ step_count' = next_step_count
    /\ UNCHANGED <<interactive, proc, current_state, final_state, step_counter,
                   travel_states, session, returned, resumes, ran, decided>>
    /\ UNCHANGED GraphFrame

\* lines 243-278: run_travel_planning saves final_state and returns it
FinishRun ==
    /\ pc = "finish"
    /\ proc = "run"
    /\ IF enable_persistence
       THEN save_state(final_state, [prefix |-> "final_result", round |-> 0])
       ELSE UNCHANGED <<step_counter, travel_states>>
    /\ returned' = final_state
    /\ pc' = "stopped"
    /\ UNCHANGED <<interactive, proc, current_state, final_state, step_count, session,
                   resumes, ran, decided>>
    /\ UNCHANGED GraphFrame

\* lines 373-393: resume_travel_planning finalizes the session and returns
FinishResume ==
    /\ pc = "finish"
    /\ proc = "resume"
    /\ session' = "completed"
    /\ returned' = final_state
    /\ pc' = "stopped"
    /\ UNCHANGED <<interactive, proc, current_state, final_state, step_count, step_counter,
                   travel_states, resumes, ran, decided>>
    /\ UNCHANGED GraphFrame

\* resume_travel_planning(session_id, interactive) on the session's latest row
Resume(i) ==
    /\ pc \in {"stopped", "crashed"}
    /\ resumes < MaxResumes
    /\ travel_states # <<>>
    /\ \E resumed \in {resume_session} :
           /\ current_state' = resumed.latest_state
           /\ step_counter' = resumed.step_counter
           /\ step_count' = resumed.step_counter
    /\ proc' = "resume"
    /\ interactive' = i
    /\ pc' = "start"
    /\ resumes' = resumes + 1
    /\ rounds' = 0
    /\ returned' = None
    /\ final_state' = None
    /\ ran' = <<>>
    /\ decided' = None
    /\ UNCHANGED <<query, enable_persistence, keep_history, write_fails, node, patches, tool_errors,
                   probe, travel_states, session>>

\* the process executing the driver is stopped (Ctrl-C, kill, power loss)
\* between two events of the stream or at a prompt
Interrupted ==
    /\ pc = "stream"
    /\ pc' = "crashed"
    /\ UNCHANGED <<query, interactive, enable_persistence, keep_history, write_fails, proc,
                   current_state,
                   final_state, node, patches, step_count, step_counter, travel_states,
                   session, returned, resumes, rounds, tool_errors, ran, decided, probe>>

\* interactive_resume: a session chosen from list_resumable_sessions
InteractiveResume ==
    /\ session = "active"
    /\ Resume(TRUE)

\* resume_travel_planning called with a session id, interactive defaulting to False
ResumeTravelPlanning ==
    /\ session # "none"
    /\ Resume(FALSE)

NodeStep ==
    \/ ParseIntent
    \/ ValidateBudget
    \/ CheckDestination
    \/ VerifyTravelTime
    \/ CheckDocuments
    \/ StartParallel
    \/ QueryFlights
    \/ QueryHotels
    \/ QueryAttractions
    \/ AggregateResults
    \/ BudgetOptimization
    \/ CheckBudgetSatisfaction
    \/ ItineraryOptimization
    \/ CheckItinerarySatisfaction
    \/ HumanIntervention
    \/ GenerateItinerary
    \/ WriteItineraryFile
    \/ ToolNode
    \/ NodeRaises

Next ==
    \/ StartRound
    \/ NodeStep
    \/ HumanDecision
    \/ UserReply
    \/ AutoContinue
    \/ LoopExit
    \/ FinishRun
    \/ FinishResume
    \/ InteractiveResume
    \/ ResumeTravelPlanning

Spec == Init /\ [][Next]_vars

\* ------------------------------------------------------------------------
\* The loop routers as pure functions: every combination of the fields they
\* read is drawn in RouterInit and each router is applied to it once
\* ------------------------------------------------------------------------
ItineraryScores == {60, 75, 90}

ProbeStates ==
    {[control |-> [budget_optimization_attempts |-> a,
                   budget_satisfied |-> s,
                   needs_human_intervention |-> h,
                   itinerary_optimization_attempts |-> ia,
                   itinerary_satisfied |-> is,
                   itinerary_score |-> sc],
      cost_analysis |-> [is_over_budget |-> o]] :
        a \in 0..MaxProbeAttempts, s \in BOOLEAN, h \in BOOLEAN, o \in BOOLEAN,
        ia \in 0..MaxProbeAttempts, is \in BOOLEAN, sc \in ItineraryScores}

RouterInit ==
    /\ query = [destination |-> "Dali", days |-> "3", budget |-> "5000", requirements |-> <<>>]
    /\ interactive = FALSE
    /\ enable_persistence = FALSE
    /\ keep_history = TRUE
    /\ write_fails = FALSE
    /\ proc = "run"
    /\ pc = "probe"
    /\ current_state = None
    /\ final_state = None
    /\ node = END
    /\ patches = EmptyDict
    /\ step_count = 0
    /\ step_counter = 0
    /\ travel_states = <<>>
    /\ session = "none"
    /\ returned = None
    /\ resumes = 0
    /\ rounds = 0
    /\ tool_errors = 0
    /\ ran = <<>>
    /\ decided = None
    /\ \E ps \in ProbeStates :
        probe = [used |-> TRUE, state |-> ps, budget_route |-> "none",
                 itinerary_route |-> "none"]

ProbeFrame == <<query, interactive, enable_persistence, keep_history, write_fails, proc, pc,
                current_state,
                final_state, node, patches, step_count, step_counter, travel_states, session,
                returned, resumes, rounds, tool_errors, ran, decided>>

ProbeBudgetRouter ==
    /\ pc = "probe"
    /\ probe.budget_route = "none"
    /\ probe' = [probe EXCEPT !.budget_route = budget_satisfaction_router(probe.state)]
    /\ UNCHANGED ProbeFrame

ProbeItineraryRouter ==
    /\ pc = "probe"
    /\ probe.itinerary_route = "none"
    /\ probe' = [probe EXCEPT !.itinerary_route = itinerary_satisfaction_router(probe.state)]
    /\ UNCHANGED ProbeFrame

RouterNext ==
    \/ ProbeBudgetRouter
    \/ ProbeItineraryRouter

RouterSpec == RouterInit /\ [][RouterNext]_vars

\* the attempts limit M of both loops (graph.py 176, 178, 217, 219)
M == 3

BudgetProbed == pc = "probe" /\ probe.budget_route # "none"
ItineraryProbed == pc = "probe" /\ probe.itinerary_route # "none"

\* C1: with M = 3 neither loop router returns its continue-loop target once the
\* loop's attempts counter has reached M: budget_satisfaction_router never
\* returns budget_optimization when budget_optimization_attempts >= 3, and
\* itinerary_satisfaction_router never returns itinerary_optimization when
\* itinerary_optimization_attempts >= 3.
C1_NoContinueAtLimit ==
    /\ (BudgetProbed /\ probe.state.control.budget_optimization_attempts >= M)
            => probe.budget_route # "budget_optimization"
    /\ (ItineraryProbed /\ probe.state.control.itinerary_optimization_attempts >= M)
            => probe.itinerary_route # "itinerary_optimization"

\* both routers applied to a state at the limit, nothing satisfied, no flag
C1_Witness ==
    /\ BudgetProbed
    /\ ItineraryProbed
    /\ probe.state.control.budget_optimization_attempts = M
    /\ probe.state.control.itinerary_optimization_attempts = M
    /\ ~probe.state.control.budget_satisfied
    /\ ~probe.state.control.itinerary_satisfied
    /\ ~probe.state.control.needs_human_intervention
    /\ probe.budget_route = "human_intervention"

\* C2: for every combination of budget_satisfied, needs_human_intervention,
\* budget_optimization_attempts in 0..4 and is_over_budget the budget router
\* follows the four-rule priority policy with M = 3: it advances exactly when
\* the plan is satisfied or the limit is reached without flag and without
\* overspend, escalates exactly when unsatisfied and (flag or limit reached
\* while over budget), and continues exactly when unsatisfied, unflagged and
\* below the limit.
C2_PriorityPolicy ==
    BudgetProbed =>
        LET c == probe.state.control
            sat == c.budget_satisfied
            esc == c.needs_human_intervention
            atLimit == c.budget_optimization_attempts >= M
            over == probe.state.cost_analysis.is_over_budget
        IN  /\ probe.budget_route = "itinerary_optimization"
                <=> (sat \/ (~esc /\ atLimit /\ ~over))
            /\ probe.budget_route = "human_intervention"
                <=> (~sat /\ (esc \/ (atLimit /\ over)))
            /\ probe.budget_route = "budget_optimization"
                <=> (~sat /\ ~esc /\ ~atLimit)

\* the flag escalates below the limit and without overspend (rule 2 before 3, 4)
C2_Witness ==
    /\ BudgetProbed
    /\ ~probe.state.control.budget_satisfied
    /\ probe.state.control.needs_human_intervention
    /\ probe.state.control.budget_optimization_attempts = 1
    /\ ~probe.state.cost_analysis.is_over_budget
    /\ probe.budget_route = "human_intervention"

\* ------------------------------------------------------------------------
\* run_travel_planning alone, without persistence and without the histories
\* no handler reads: every round of the loop is eventually taken
\* ------------------------------------------------------------------------
LiveInit ==
    /\ enable_persistence = FALSE
    /\ keep_history = FALSE
    /\ write_fails = FALSE
    /\ InitCommon

LiveNext ==
    \/ StartRound
    \/ NodeStep
    \/ HumanDecision
    \/ UserReply
    \/ AutoContinue
    \/ LoopExit
    \/ FinishRun

LiveSpec == LiveInit /\ [][LiveNext]_vars /\ WF_vars(LiveNext)

\* ------------------------------------------------------------------------
\* Interruption and recovery: a persisted run without a user, stopped at any
\* event of the stream and handed to resume_travel_planning
\* ------------------------------------------------------------------------
ResumeInit ==
    /\ enable_persistence = TRUE
    /\ keep_history = TRUE
    /\ write_fails = FALSE
    /\ InitCommon
    /\ ~interactive

ResumeNext ==
    \/ StartRound
    \/ NodeStep
    \/ AutoContinue
    \/ LoopExit
    \/ FinishRun
    \/ FinishResume
    \/ Interrupted
    \/ ResumeTravelPlanning

ResumeSpec == ResumeInit /\ [][ResumeNext]_vars

\* ------------------------------------------------------------------------
\* Unattended runs on tight budgets: requests of zero or three days with a
\* budget of 0, 400 or 700 yuan, every prompt continued automatically
\* ------------------------------------------------------------------------
TightQueries ==
    {[destination |-> "Dali", days |-> n, budget |-> b, requirements |-> r] :
        n \in {"0", "3"}, b \in {"0", "400", "700"}, r \in RequirementLists}

TightInit ==
    /\ enable_persistence = FALSE
    /\ keep_history = TRUE
    /\ write_fails = FALSE
    /\ query \in TightQueries
    /\ InitRun
    /\ ~interactive

TightNext ==
    \/ StartRound
    \/ NodeStep
    \/ AutoContinue
    \/ LoopExit
    \/ FinishRun

TightSpec == TightInit /\ [][TightNext]_vars

\* ------------------------------------------------------------------------
\* Runs with persistence whose database may reject writes: the INSERT of
\* save_travel_state raises, database.py 171-173 returns False and
\* persistence.py 30-53 goes on
\* ------------------------------------------------------------------------
FlakyQueries ==
    {[destination |-> "Dali", days |-> "3", budget |-> b, requirements |-> <<>>] :
        b \in {"0", "700", "5000"}}

FlakyInit ==
    /\ enable_persistence = TRUE
    /\ keep_history = TRUE
    /\ write_fails = TRUE
    /\ query \in FlakyQueries
    /\ InitRun
    /\ ~interactive

FlakySpec == FlakyInit /\ [][TightNext]_vars

\* ------------------------------------------------------------------------
\* Properties of the workflow
\* ------------------------------------------------------------------------
Count(seq, x) == Cardinality({i \in 1..Len(seq) : seq[i] = x})

IsPrefix(s, t) == Len(s) <= Len(t) /\ \A i \in 1..Len(s) : s[i] = t[i]

Streaming == pc = "stream" /\ ~IsNone(final_state)

BudgetAttempts == Get(final_state.control, "budget_optimization_attempts", 0)

\* the router has just been evaluated after the third unsatisfied pass of a
\* budget loop that began at zero attempts
ThirdPassUnsatisfied ==
    /\ Streaming
    /\ ran # <<>>
    /\ Last(ran) = "check_budget_satisfaction"
    /\ Count(ran, "budget_optimization") = M
    /\ BudgetAttempts = M
    /\ ~Get(final_state.control, "budget_satisfied", FALSE)

\* C3: when a budget loop that starts with zero attempts runs
\* node_budget_optimization three times and each pass leaves the plan
\* unsatisfied, the router evaluated after the third pass returns
\* human_intervention, and budget_optimization is never executed a fourth
\* time in that graph invocation.
C3_EscalatesAfterThree ==
    /\ ThirdPassUnsatisfied => node = "human_intervention"
    /\ (Streaming /\ BudgetAttempts = Count(ran, "budget_optimization"))
            => Count(ran, "budget_optimization") <= M

C3_Witness ==
    /\ ThirdPassUnsatisfied
    /\ node = "human_intervention"
    /\ final_state.cost_analysis.is_over_budget

\* a node has executed in this step
NodeExecuted == Len(ran') = Len(ran) + 1

\* C5: whenever a node execution leaves status in {collecting_info,
\* waiting_confirmation} the router that follows returns END, so that no
\* further node executes in that graph invocation; and no node other than the
\* entry node parse_intent executes while status is one of these two values.
C5_SuspendedHalts ==
    /\ []((Streaming /\ ran # <<>> /\ final_state.status \in Suspended) => node = END)
    /\ [][(NodeExecuted /\ ~IsNone(final_state) /\ final_state.status \in Suspended)
            => node = "parse_intent"]_vars

\* human_intervention has suspended the run at the gate and the graph halted
C5_Witness ==
    /\ Streaming
    /\ ran # <<>>
    /\ Last(ran) = "human_intervention"
    /\ final_state.status = "waiting_confirmation"
    /\ node = END

Decided(choice) == ~IsNone(decided) /\ decided.choice = choice

\* C4: for every input, interactive or not, the driver loop of
\* run_travel_planning stops after finitely many rounds and node executions,
\* every prompt being answered; in particular a run whose cost exceeds five
\* times the budget does not cycle forever.
C4_DriverTerminates == <>(pc \in {"stopped", "crashed"})

\* C6: whenever the driver loop of run_travel_planning or
\* resume_travel_planning stops, the status of the state it holds is suspended
\* (collecting_info, waiting_confirmation) or terminal (completed, terminated),
\* never runnable (processing, planning, continuing, optimizing).
C6_StopsSuspendedOrTerminal ==
    pc \in {"finish", "stopped"} => final_state.status \in Suspended \cup Terminal

\* C7: after the terminate decision at waiting_confirmation the run's final
\* status is terminated, both in the state the driver returns and in the
\* persisted checkpoint with the highest step number.
C7_TerminateIsFinal ==
    (Decided("terminate") /\ pc = "stopped") =>
        /\ returned.status = "terminated"
        /\ travel_states # <<>> =>
                get_latest_state(travel_states).state_data.status = "terminated"

\* the total an accepted reduction of rate percent leaves
reduced_total(total_cost, rate) == (total_cost * (100 - rate)) \div 100

\* C8: after the accept decision at waiting_confirmation the run advances:
\* cost_analysis.total_cost is reduced by the computed rate, generate_itinerary
\* executes and the run reaches status completed.
C8_AcceptReducesAndCompletes ==
    (Decided("accept") /\ pc = "stopped") =>
        /\ returned.status = "completed"
        /\ Count(ran, "generate_itinerary") = 1
        /\ returned.cost_analysis.total_cost =
                reduced_total(decided.state.cost_analysis.total_cost,
                              optimization_rate_of(decided.state))

KeepPath == <<"parse_intent", "generate_itinerary", "write_itinerary_file", "tool_node">>

\* what holds from the keep decision on: the costs are those shown at the
\* gate, _control records the choice, and the graph runs parse_intent and
\* then generate_itinerary without entering the budget loop
KeepFrame ==
    Decided("keep") =>
        /\ current_state.cost_analysis = decided.state.cost_analysis
        /\ current_state.control["user_choice"] = "keep"
        /\ current_state.control["optimization_applied"] = FALSE
        /\ pc # "start" =>
            /\ final_state.cost_analysis = decided.state.cost_analysis
            /\ final_state.control["user_choice"] = "keep"
            /\ final_state.control["optimization_applied"] = FALSE
            /\ IsPrefix(ran, KeepPath)
        /\ pc = "stopped" =>
            /\ returned.status = "completed"
            /\ ran = KeepPath

\* C9: after the keep decision at waiting_confirmation the run advances with
\* cost_analysis unchanged and with user_choice = keep and
\* optimization_applied = false in _control; generate_itinerary executes next
\* after parse_intent and the run reaches status completed without
\* re-entering the budget loop.
C9_KeepAdvancesUnchanged ==
    /\ []KeepFrame
    /\ Decided("keep") ~> (pc = "stopped" /\ returned.status = "completed")

C9_Witness ==
    /\ Decided("keep")
    /\ pc = "stopped"
    /\ returned.status = "completed"
    /\ returned.cost_analysis.is_over_budget
    /\ ran = KeepPath

\* C10: once the run's state is completed or terminated no node executes for
\* it and no checkpoint is written for it any more, in particular not when
\* the session is picked from list_resumable_sessions and handed to
\* resume_travel_planning.
C10_NothingAfterTerminal ==
    [][(proc = "resume" /\ pc \in {"start", "stream"} /\ current_state.status \in Terminal)
            => (~NodeExecuted /\ travel_states' = travel_states)]_vars

\* ------------------------------------------------------------------------
\* The checkpoint store on its own: any sequence of save_state calls, some of
\* them failing, and resume_session
\* ------------------------------------------------------------------------
\* save_state calls in one behaviour
MaxSaves == 4

\* states as the graph streams them: the initial one, a completed one, and one
\* whose history ends with a tool call and its result
StoreStates ==
    LET s0 == initial_state(FALSE)
        s1 == node_generate_itinerary(s0)
        s2 == tool_node(node_write_itinerary_file(s1), TRUE)
    IN  {s0, s1, s2}

StoreFrame == <<query, interactive, enable_persistence, keep_history, write_fails, pc,
                current_state,
                node, patches, step_count, session, resumes, rounds, tool_errors, ran,
                decided, probe>>

StoreInit ==
    /\ query = [destination |-> "Dali", days |-> "3", budget |-> "5000", requirements |-> <<>>]
    /\ interactive = FALSE
    /\ enable_persistence = TRUE
    /\ keep_history = TRUE
    /\ write_fails = FALSE
    /\ proc = "run"
    /\ pc = "store"
    /\ current_state = None
    /\ final_state = None
    /\ node = END
    /\ patches = EmptyDict
    /\ step_count = 0
    /\ step_counter = 0
    /\ travel_states = <<>>
    /\ session = "active"
    /\ returned = None
    /\ resumes = 0
    /\ rounds = 0
    /\ tool_errors = 0
    /\ ran = <<>>
    /\ decided = None
    /\ probe = NoProbe

\* planner.save_state(state, node_name), the insert succeeding
SaveState ==
    /\ pc = "store"
    /\ step_counter < MaxSaves
    /\ \E state \in StoreStates :
        /\ save_state(state, round_label)
        /\ final_state' = state
    /\ UNCHANGED <<proc, returned>>
    /\ UNCHANGED StoreFrame

\* planner.save_state(state, node_name), the insert failing
SaveStateFails ==
    /\ pc = "store"
    /\ step_counter < MaxSaves
    /\ \E state \in StoreStates :
        /\ save_state_failed
        /\ final_state' = state
    /\ UNCHANGED <<proc, returned>>
    /\ UNCHANGED StoreFrame

\* resume_session(session_id) in a new process
ResumeSession ==
    /\ pc = "store"
    /\ proc' = "resume"
    /\ \E resumed \in {resume_session} :
        /\ step_counter' = resumed.step_counter
        /\ returned' = resumed.latest_state
    /\ final_state' = None
    /\ UNCHANGED travel_states
    /\ UNCHANGED StoreFrame

StoreNext ==
    \/ SaveState
    \/ SaveStateFails
    \/ ResumeSession

StoreSpec == StoreInit /\ [][StoreNext]_vars

\* ------------------------------------------------------------------------
\* src/src/node.py 219-384: node_parallel_query, the three tool calls run as
\* asyncio tasks under asyncio.gather. Here final_state is the node's argument,
\* returned its return value, patches the three tasks, pc the position of the
\* node's coroutine and node the task that holds the event loop.
\* ------------------------------------------------------------------------
Tools == {"flight", "hotel", "attractions"}

\* what tool_func.invoke does in its worker thread
ToolKinds == {"ok", "raises", "never"}

\* the parsed JSON a tool returns
ToolResult ==
    [b \in Tools |->
        CASE b = "flight" -> [type |-> "flight", price |-> FlightPrice]
          [] b = "hotel" -> [type |-> "hotel", total_price |-> HotelPricePerNight * 2]
          [] OTHER -> [type |-> "attractions", attractions |-> <<"sight_1", "sight_2">>]]

\* lines 349-360: the default data used for an empty result
DefaultData ==
    [b \in Tools |->
        CASE b = "flight" -> [price |-> Yuan(2000), airline |-> "default"]
          [] b = "hotel" -> [total_price |-> Yuan(1500), hotel_name |-> "default"]
          [] OTHER -> [attractions |-> <<"default">>]]

\* the dicts execute_tool_async returns
Succeeded(b) == [tool_name |-> b, success |-> TRUE, result |-> ToolResult[b]]
Failed(b, error) == [tool_name |-> b, success |-> FALSE, error |-> error]

\* lines 308-314: the results list replaced when gather times out
AllTimedOut == [b \in Tools |-> Failed(b, "timeout")]

\* lines 323-384: results handled one by one, defaults for what stayed empty
process_results(state, results) ==
    LET info(b) == IF results[b].success THEN results[b].result ELSE EmptyDict
        filled(b) == IF Falsy(info(b)) THEN DefaultData[b] ELSE info(b)
    IN  [state EXCEPT
            !.query_results = [flight |-> filled("flight"),
                               hotel |-> filled("hotel"),
                               attractions |-> filled("attractions")],
            !.messages = @ \o <<AIMessage("parallel_done")>>]

\* the state the node is called with: the request parsed, nothing queried
ParallelInput ==
    process_complete_info(initial_state(FALSE),
                          [destination |-> "Dali", days |-> "3", budget |-> "5000"])

ParallelFrame == <<query, interactive, enable_persistence, keep_history, write_fails, proc,
                   current_state,
                   final_state, step_count, step_counter, travel_states, session, resumes,
                   rounds, tool_errors, ran, decided, probe>>

ParallelInit ==
    /\ query = [destination |-> "Dali", days |-> "3", budget |-> "5000", requirements |-> <<>>]
    /\ interactive = FALSE
    /\ enable_persistence = FALSE
    /\ keep_history = TRUE
    /\ write_fails = FALSE
    /\ proc = "run"
    /\ pc = "gather"
    /\ current_state = None
    /\ final_state = ParallelInput
    /\ node = END
    /\ patches \in [Tools -> {[tool |-> k, thread |-> "working", record |-> None] :
                                k \in ToolKinds}]
    /\ step_count = 0
    /\ step_counter = 0
    /\ travel_states = <<>>
    /\ session = "none"
    /\ returned = None
    /\ resumes = 0
    /\ rounds = 0
    /\ tool_errors = 0
    /\ ran = <<>>
    /\ decided = None
    /\ probe = NoProbe

\* tool_func.invoke returns or raises in its worker thread
ToolCompletes(b) ==
    /\ pc \in {"gather", "blocked", "cancelling"}
    /\ patches[b].thread = "working"
    /\ patches[b].tool # "never"
    /\ patches' = [patches EXCEPT ![b].thread =
                      IF patches[b].tool = "ok" THEN "returned" ELSE "raised"]
    /\ UNCHANGED <<pc, node, returned>>
    /\ UNCHANGED ParallelFrame

\* lines 263-277: execute_tool_async gets the result, or the exception
TaskCompletes(b) ==
    /\ pc = "gather"
    /\ IsNone(patches[b].record)
    /\ patches[b].thread # "working"
    /\ patches' = [patches EXCEPT ![b].record =
                      IF patches[b].thread = "returned" THEN Succeeded(b)
                      ELSE Failed(b, "exception")]
    /\ UNCHANGED <<pc, node, returned>>
    /\ UNCHANGED ParallelFrame

\* lines 258-264: wait_for's 30 s pass; it cancels run_with_timeout, whose
\* `with ThreadPoolExecutor()` block is left through shutdown(wait=True):
\* the event loop's thread joins the worker thread
BranchTimeout(b) ==
    /\ pc = "gather"
    /\ IsNone(patches[b].record)
    /\ patches[b].thread = "working"
    /\ pc' = "blocked"
    /\ node' = b
    /\ UNCHANGED <<patches, returned>>
    /\ UNCHANGED ParallelFrame

\* the worker thread has ended: wait_for raises TimeoutError (lines 264-266)
TimeoutReturns ==
    /\ pc = "blocked"
    /\ patches[node].thread # "working"
    /\ patches' = [patches EXCEPT ![node].record = Failed(node, "timeout")]
    /\ pc' = "gather"
    /\ node' = END
    /\ UNCHANGED returned
    /\ UNCHANGED ParallelFrame

\* lines 304-307 and 323-384: gather has all three results
GatherReturns ==
    /\ pc = "gather"
    /\ \A b \in Tools : ~IsNone(patches[b].record)
    /\ returned' = process_results(final_state, [b \in Tools |-> patches[b].record])
    /\ pc' = "returned"
    /\ UNCHANGED <<patches, node>>
    /\ UNCHANGED ParallelFrame

\* lines 304-307: the outer wait_for's 60 s pass with a task unfinished; it
\* cancels gather, which cancels the unfinished tasks
OverallTimeout ==
    /\ pc = "gather"
    /\ \E b \in Tools : IsNone(patches[b].record)
    /\ pc' = "cancelling"
    /\ node' = "overall_timeout"
    /\ UNCHANGED <<patches, returned>>
    /\ UNCHANGED ParallelFrame

\* lines 267-269, 308-314 and 323-384: the cancelled tasks have left their executors;
\* TimeoutError reaches the node, which replaces the results list
CancelReturns ==
    /\ pc = "cancelling"
    /\ \A b \in Tools : IsNone(patches[b].record) => patches[b].thread # "working"
    /\ returned' = process_results(final_state, AllTimedOut)
    /\ pc' = "returned"
    /\ UNCHANGED <<patches, node>>
    /\ UNCHANGED ParallelFrame

ParallelNext ==
    \/ \E b \in Tools : ToolCompletes(b)
    \/ \E b \in Tools : TaskCompletes(b)
    \/ \E b \in Tools : BranchTimeout(b)
    \/ TimeoutReturns
    \/ GatherReturns
    \/ OverallTimeout
    \/ CancelReturns

ParallelSpec == ParallelInit /\ [][ParallelNext]_vars

\* C12: for any session, across the initial run and later resumes, the
\* step_number values persisted in travel_states are strictly increasing with
\* no gaps (each is the previous one + 1), also when a save_travel_state call
\* fails.
C12_StepsGapFree ==
    \A i \in 1..(Len(travel_states) - 1) :
        travel_states[i + 1].step_number = travel_states[i].step_number + 1

\* resume_session has just returned
JustResumed == pc = "store" /\ proc = "resume" /\ IsNone(final_state)

MaxStepNumber ==
    CHOOSE n \in {travel_states[i].step_number : i \in 1..Len(travel_states)} :
        \A i \in 1..Len(travel_states) : travel_states[i].step_number <= n

\* C13: after any sequence of saves, resume_session returns the state of the
\* checkpoint with the maximum step_number and sets the planner's
\* step_counter to that step_number; without a checkpoint it returns no state.
C13_ResumeReturnsLatest ==
    JustResumed =>
        IF travel_states = <<>>
        THEN IsNone(returned)
        ELSE /\ step_counter = MaxStepNumber
             /\ \E i \in 1..Len(travel_states) :
                    /\ travel_states[i].step_number = MaxStepNumber
                    /\ returned = travel_states[i].state_data

\* ------------------------------------------------------------------------
\* The compiled graph as a function: one invocation run to END with every
\* tool call succeeding
\* ------------------------------------------------------------------------
node_result(n, state) ==
    CASE n = "parse_intent" -> node_parse_intent(state, query)
      [] n = "validate_budget" -> node_validate_budget(state)
      [] n = "check_destination" -> node_check_destination(state)
      [] n = "verify_travel_time" -> node_verify_travel_time(state)
      [] n = "check_documents" -> node_check_documents(state)
      [] n = "start_parallel" -> state
      [] n = "queries" -> Merge(Merge(Merge(state, node_query_flights(state, TRUE)),
                                      node_query_hotels(state, TRUE)),
                                node_query_attractions(state, TRUE))
      [] n = "aggregate_results" -> node_aggregate_parallel_results(state)
      [] n = "budget_optimization" -> node_budget_optimization(state)
      [] n = "check_budget_satisfaction" -> node_check_budget_satisfaction(state)
      [] n = "itinerary_optimization" -> node_itinerary_optimization(state)
      [] n = "check_itinerary_satisfaction" -> node_check_itinerary_satisfaction(state)
      [] n = "human_intervention" -> node_human_intervention(state)
      [] n = "generate_itinerary" -> node_generate_itinerary(state)
      [] n = "write_itinerary_file" -> node_write_itinerary_file(state)
      [] OTHER -> tool_node(state, TRUE)

next_node(n, result) ==
    CASE n = "parse_intent" -> after_parse_router(result)
      [] n = "validate_budget" -> "check_destination"
      [] n = "check_destination" -> "verify_travel_time"
      [] n = "verify_travel_time" -> "check_documents"
      [] n = "check_documents" -> "start_parallel"
      [] n = "start_parallel" -> "queries"
      [] n = "queries" -> "aggregate_results"
      [] n = "aggregate_results" -> "budget_optimization"
      [] n = "budget_optimization" -> "check_budget_satisfaction"
      [] n = "check_budget_satisfaction" -> budget_satisfaction_router(result)
      [] n = "itinerary_optimization" -> "check_itinerary_satisfaction"
      [] n = "check_itinerary_satisfaction" -> itinerary_satisfaction_router(result)
      [] n = "human_intervention" -> human_intervention_router(result)
      [] n = "generate_itinerary" -> "write_itinerary_file"
      [] n = "write_itinerary_file" -> "tool_node"
      [] OTHER -> END

RECURSIVE invoke_graph(_, _)
invoke_graph(state, n) ==
    IF n = END \/ raises(n, state) THEN state
    ELSE Local(node_result(n, state),
               LAMBDA result : invoke_graph(result, next_node(n, result)))

\* the state run_travel_planning returns when it is not interrupted and its
\* first graph invocation ends the run
Uninterrupted == invoke_graph(initial_state(interactive), "parse_intent")

\* C14: with deterministic handlers and identical external inputs, a run that
\* is stopped after step K at a node boundary and handed to
\* resume_travel_planning yields the same state as the uninterrupted run: it
\* continues where it left off and does not end without executing the
\* remaining nodes.
C14_ResumeEquivalence ==
    (proc = "resume" /\ pc = "stopped" /\ tool_errors = 0
        /\ Uninterrupted.status = "completed")
    => /\ returned.status = Uninterrupted.status
       /\ returned.itinerary = Uninterrupted.itinerary
       /\ returned.cost_analysis = Uninterrupted.cost_analysis
       /\ returned.query_results = Uninterrupted.query_results

\* C15: with persistence enabled, whenever the driver stops, the state it
\* returns is exactly the state stored in the highest-step checkpoint of the
\* session: every change the driver itself made (the user's reply, a decision
\* handler, a status) was persisted before it stopped.
C15_ReturnedIsCheckpointed ==
    (enable_persistence /\ pc = "stopped" /\ travel_states # <<>>)
    => /\ \E i \in 1..Len(travel_states) :
              /\ travel_states[i].step_number = MaxStepNumber
              /\ travel_states[i].state_data = returned
       /\ \E i \in 1..Len(travel_states) : travel_states[i].state_data = current_state

\* the messages of t extend those of s
Extends(s, t) == IsNone(s) \/ IsNone(t) \/ IsPrefix(s.messages, t.messages)

NodesAppend == Extends(final_state, final_state')

\* a step of resume_travel_planning loading the latest checkpoint
ResumeStep == pc \in {"stopped", "crashed"} /\ pc' = "start"

DriverAppends ==
    (current_state' # current_state /\ ~ResumeStep) => Extends(final_state, current_state')

ResumeAppends ==
    ResumeStep
    => \A i \in 1..Len(travel_states) :
           travel_states[i].step_number = MaxStepNumber
           => Extends(travel_states[i].state_data, current_state')

\* C16: messages is append-only: after every node execution, every driver
\* update and every checkpoint save followed by resume, the previous messages
\* sequence is a prefix of the new one, for messages of every type including
\* tool-call and tool-result messages.
C16_MessagesAppendOnly == [][NodesAppend /\ DriverAppends /\ ResumeAppends]_vars

\* the attempt counter of loop k in state s, 0 while it is not set
Attempts(s, k) == IF IsNone(s) THEN 0 ELSE Get(s.control, k, 0)

Counters == {"budget_optimization_attempts", "itinerary_optimization_attempts"}

\* no attempt counter is lower in t than in s
Mono(s, t) == IsNone(s) \/ IsNone(t) \/ \A k \in Counters : Attempts(s, k) <= Attempts(t, k)

\* C17: within a run the two attempt counters of _control never decrease:
\* no node execution (parse_intent included), no driver update and no driver
\* round lowers or erases a counter once it is set.
C17_CountersMonotone ==
    [][/\ Mono(final_state, final_state')
       /\ current_state' # current_state => Mono(final_state, current_state')
       /\ Mono(current_state, final_state')]_vars

\* parse_intent has executed in a later round on a state whose budget counter
\* had reached M, and the counter is still M
C17_Witness ==
    /\ Streaming
    /\ rounds > 1
    /\ ran # <<>>
    /\ Last(ran) = "parse_intent"
    /\ Attempts(final_state, "budget_optimization_attempts") = M

Flags(n) ==
    IF n = "budget_optimization" THEN {"budget_satisfied", "needs_human_intervention"}
    ELSE IF n = "itinerary_optimization" THEN {"itinerary_satisfied"}
    ELSE {}

\* C18: once budget_satisfied, itinerary_satisfied or needs_human_intervention
\* is true in _control, no later execution of the same loop's work node
\* (budget_optimization for the first and the third, itinerary_optimization
\* for the second) sets it back to false or removes it.
C18_FlagsStick ==
    [][(NodeExecuted /\ ~IsNone(final_state))
       => \A f \in Flags(Last(ran')) :
              Get(final_state.control, f, FALSE) => Get(final_state'.control, f, FALSE)]_vars

\* budget_optimization has executed a second time, in a later round, on a
\* state whose escalation flag the first execution had set
C18_Witness ==
    /\ Streaming
    /\ rounds > 1
    /\ ran # <<>>
    /\ Last(ran) = "budget_optimization"
    /\ Attempts(final_state, "budget_optimization_attempts") = 2
    /\ Get(final_state.control, "needs_human_intervention", FALSE)

\* the three entries of ran before position i are the three branches
JoinedAt(i) ==
    /\ i > 4
    /\ {ran[i - 1], ran[i - 2], ran[i - 3]} = Branches
    /\ ran[i - 4] = "start_parallel"

\* C19: aggregate_results does not start before each of query_flights,
\* query_hotels and query_attractions of the same fan-out has produced its
\* patch (a result or an error patch), and it executes exactly once per
\* fan-out.
C19_JoinComplete ==
    /\ \A i \in 1..Len(ran) : ran[i] = "aggregate_results" => JoinedAt(i)
    /\ At("aggregate_results")
       => /\ JoinedAt(Len(ran) + 1)
          /\ patches = EmptyDict
          /\ \A k \in {"flight_info", "hotel_info", "attractions_info"} :
                 ~IsNone(final_state[k])
    /\ (pc = "stream" /\ Len(ran) >= 3
           /\ {ran[Len(ran)], ran[Len(ran) - 1], ran[Len(ran) - 2]} = Branches)
       => node = "aggregate_results"
    /\ \A i \in 1..Len(ran) :
           (ran[i] \in Branches /\ i < Len(ran))
           => ran[i + 1] \in Branches \union {"aggregate_results"}

\* aggregate_results has executed after a fan-out in which query_flights
\* finished last and one query failed
C19_Witness ==
    /\ Streaming
    /\ Len(ran) > 4
    /\ Last(ran) = "aggregate_results"
    /\ ran[Len(ran) - 1] = "query_flights"
    /\ tool_errors = 1

\* the key each branch writes
OwnKey == [b \in Branches |->
             CASE b = "query_flights" -> "flight_info"
               [] b = "query_hotels" -> "hotel_info"
               [] OTHER -> "attractions_info"]

\* the patch branch b returns on `state`, its tool call succeeding or not
BranchPatch(b, state, ok) ==
    CASE b = "query_flights" -> node_query_flights(state, ok)
      [] b = "query_hotels" -> node_query_hotels(state, ok)
      [] OTHER -> node_query_attractions(state, ok)

\* the completion orders of the three branches
Orders == {o \in [1..3 -> Branches] : {o[1], o[2], o[3]} = Branches}

\* the patches of `done` applied to `state` in the order o
MergeInOrder(state, done, o) ==
    Merge(Merge(Merge(state, done[o[1]]), done[o[2]]), done[o[3]])

\* every patch collected so far was computed from the pre-fan-out state and
\* holds its branch's key only
PatchesOwnKeyOnly ==
    At("queries")
    => \A b \in DOMAIN patches :
           /\ DOMAIN patches[b] = {OwnKey[b]}
           /\ \E ok \in BOOLEAN : patches[b] = BranchPatch(b, final_state, ok)

\* the step in which the last branch finishes: whatever the order in which
\* the three patches are applied, the merged state is the one streamed to
\* aggregate_results
JoinIsOrderFree ==
    (At("queries") /\ node' = "aggregate_results")
    => \E ok \in BOOLEAN :
           LET last == CHOOSE b \in Branches : b \notin DOMAIN patches
               patch == BranchPatch(last, final_state, ok)
               done == Put(patches, last, patch)
           IN  /\ DOMAIN patch = {OwnKey[last]}
               /\ \A o \in Orders :
                      /\ MergeInOrder(final_state, done, o) = final_state'
                      /\ node_aggregate_parallel_results(
                             MergeInOrder(final_state, done, o)).query_results
                         = node_aggregate_parallel_results(final_state').query_results

\* C20: each query branch reads only the pre-fan-out state and returns a
\* patch holding only its own key, so for every completion order of the three
\* branches the merged state seen by aggregate_results, and the query_results
\* it builds, are the same.
C20_FanOutCommutes == [][PatchesOwnKeyOnly /\ JoinIsOrderFree]_vars

\* the fan-out has joined with the branches finishing in the order
\* attractions, hotels, flights, the hotel query having failed
C20_Witness ==
    /\ At("aggregate_results")
    /\ Len(ran) >= 3
    /\ ran[Len(ran)] = "query_flights"
    /\ ran[Len(ran) - 1] = "query_hotels"
    /\ ran[Len(ran) - 2] = "query_attractions"
    /\ "error" \in DOMAIN final_state.hotel_info
    /\ "error" \notin DOMAIN final_state.flight_info

\* a step in which the tool call of a fan-out branch raises
BranchFails == At("queries") /\ tool_errors' = tool_errors + 1

IsErrorRecord(r) == "error" \in DOMAIN r

\* the failed branch's patch holds its own key only, with an error record, and
\* the patches of the siblings that had finished are as they were
FailureIsIsolated ==
    BranchFails
    => LET b == Last(ran')
       IN  /\ pc' = "stream"
           /\ IF node' = "aggregate_results"
              THEN /\ IsErrorRecord(final_state'[OwnKey[b]])
                   /\ \A c \in DOMAIN patches :
                          final_state'[OwnKey[c]] = patches[c][OwnKey[c]]
                   /\ \A k \in DOMAIN final_state :
                          k \notin {OwnKey[c] : c \in Branches}
                          => final_state'[k] = final_state[k]
              ELSE /\ node' = "queries"
                   /\ DOMAIN patches' = DOMAIN patches \union {b}
                   /\ DOMAIN patches'[b] = {OwnKey[b]}
                   /\ IsErrorRecord(patches'[b][OwnKey[b]])
                   /\ \A c \in DOMAIN patches : patches'[c] = patches[c]
                   /\ final_state' = final_state

\* after a fan-out with a failed branch the join is scheduled and can execute
JoinStillRuns ==
    (At("aggregate_results")
        /\ \E b \in Branches : IsErrorRecord(final_state[OwnKey[b]]))
    => ENABLED AggregateResults

\* C21: if the tool call inside one fan-out branch raises, the branch still
\* returns a patch holding only its own key with an error record, the
\* patches of its siblings are unaffected, aggregate_results still executes
\* and the run is not aborted.
C21_BranchFailureIsolated == [][FailureIsIsolated /\ JoinStillRuns]_vars

\* aggregate_results has executed after a fan-out in which the flight and the
\* hotel query failed and the attractions query succeeded
C21_Witness ==
    /\ Streaming
    /\ ran # <<>>
    /\ Last(ran) = "aggregate_results"
    /\ IsErrorRecord(final_state.query_results.flight)
    /\ IsErrorRecord(final_state.query_results.hotel)
    /\ ~IsErrorRecord(final_state.query_results.attractions)

\* the data node_parallel_query returned for tool b
Returned(b) == returned.query_results[b]

\* the task of tool b ended with a result of the tool
BranchSucceeded(b) == ~IsNone(patches[b].record) /\ patches[b].record.success

\* the return value holds data for all three keys, a tool's own result for a
\* branch that succeeded and the default for a branch that did not
FallbackExactlyForFailed ==
    \A b \in Tools :
        /\ ~Falsy(Returned(b))
        /\ BranchSucceeded(b) => Returned(b) = ToolResult[b]
        /\ ~BranchSucceeded(b) => Returned(b) = DefaultData[b]

\* C22: whatever each of the three tool calls does (returns, raises, or is
\* still running when its 30 s timeout passes), node_parallel_query does not
\* hang: until it has returned it can always take a further step; and when
\* gather has delivered the three outcomes, query_results holds non-empty
\* data under flight, hotel and attractions, the default exactly for the
\* branches that failed or timed out.
C22_ParallelQueryCompletes ==
    /\ pc # "returned" => ENABLED ParallelNext
    /\ (pc = "returned" /\ node # "overall_timeout") => FallbackExactlyForFailed

\* C23: when the overall 60 s timeout has fired, a branch whose task had
\* completed with a result keeps that result in query_results, and only the
\* branches still pending at that moment get the default.
C23_OverallTimeoutKeepsFinished ==
    (pc = "returned" /\ node = "overall_timeout") => FallbackExactlyForFailed

\* the node about to run raises on the state it is given
NodeFails == pc = "stream" /\ raises(node, final_state)

\* C24: when a node of the graph raises (node_validate_budget reading a
\* travel_info of None, node_human_intervention dividing by a budget of 0,
\* ...), the driver's next step ends the run with status terminated; the
\* exception does not leave the driver with the status as it was.
C24_NodeErrorTerminates ==
    [][(NodeFails /\ pc' # pc) => (pc' = "stopped" /\ returned'.status = "terminated")]_vars

\* a save_state call whose write failed: the counter advanced, no row stored
FailedSaveStep == step_counter' = step_counter + 1 /\ travel_states' = travel_states

\* nodes whose result does not depend on a tool call's outcome
ToolFree(n) == n \notin {"queries", "tool_node"}

\* the step taken is the one a successful save would have left behind: the
\* driver keeps its state, the streamed event is the node's result and the
\* graph goes on to the routed node, or the run returns the final state
AsIfSaved ==
    /\ pc' # "crashed"
    /\ current_state' = current_state
    /\ pc = "stream" =>
           /\ pc' = "stream"
           /\ ToolFree(node) => /\ final_state' = node_result(node, final_state)
                                /\ node' = next_node(node, final_state')
    /\ pc = "finish" => (pc' = "stopped" /\ returned' = final_state)

\* C25: a checkpoint write that fails is not fatal: save_state returns
\* normally, the state the driver holds is what the node produced, the run
\* goes on to the same next node, and a run whose tool calls all succeed and
\* that ends in its first round returns exactly the state it returns when
\* every save succeeds.
C25_SaveFailureNonFatal ==
    /\ []((pc = "stopped" /\ tool_errors = 0 /\ rounds = 1) => returned = Uninterrupted)
    /\ [][FailedSaveStep => AsIfSaved]_vars

\* a run has returned a completed plan although one of its saves failed
C25_Witness ==
    /\ pc = "stopped"
    /\ FailedWrites = 1
    /\ tool_errors = 0
    /\ rounds = 1
    /\ returned.status = "completed"

\* the declared nodes the model's position n stands for: the three query
\* nodes run in one super-step
NodesAt(n) ==
    IF n = "queries" THEN {"query_flights", "query_hotels", "query_attractions"} ELSE {n}

\* every target of a path map and both ends of every edge are declared
WiringDeclared ==
    /\ \A n \in DOMAIN TargetMaps :
           /\ n \in DeclaredNodes
           /\ \A k \in DOMAIN TargetMaps[n] : TargetMaps[n][k] \in DeclaredNodes \cup {END}
    /\ \A e \in StaticEdges : e[1] \in DeclaredNodes /\ e[2] \in DeclaredNodes \cup {END}

\* each router, applied to the state the run holds, returns a key of its map
KeysInMaps ==
    (pc = "stream" /\ ~IsNone(final_state)) =>
        \A n \in DOMAIN TargetMaps : route(n, final_state) \in DOMAIN TargetMaps[n]

\* the graph is at declared nodes, or at END
AtDeclaredNode == pc = "stream" => NodesAt(node) \subseteq DeclaredNodes \cup {END}

\* a step of the graph follows the router's key through its map, or an edge
FollowsWiring ==
    (pc = "stream" /\ pc' = "stream" /\ ran' # ran /\ node' # "queries" /\ node # "queries")
    => IF node \in DOMAIN TargetMaps
       THEN /\ route(node, final_state') \in DOMAIN TargetMaps[node]
            /\ node' = TargetMaps[node][route(node, final_state')]
       ELSE <<node, node'>> \in StaticEdges

\* C26: each of the four routers returns, for every state a run reaches, a
\* key of the map declared for it (END included), every target of the maps
\* and both ends of every static edge are declared nodes, and every step of
\* the graph goes where the map or the edge says: no routing error occurs.
C26_RoutingTotal ==
    /\ [](WiringDeclared /\ KeysInMaps /\ AtDeclaredNode)
    /\ [][FollowsWiring]_vars

\* check_budget_satisfaction has just routed to human_intervention
C26_Witness ==
    /\ pc = "stream"
    /\ ran # <<>>
    /\ Last(ran) = "check_budget_satisfaction"
    /\ node = "human_intervention"

\* the statuses the workflow documents
Statuses ==
    {"processing", "planning", "continuing", "optimizing", "collecting_info",
     "waiting_confirmation", "completed", "terminated"}

StatusKnown(s) == IsNone(s) \/ s.status \in Statuses

\* C27: in every reachable state of a run started through
\* run_travel_planning, the status of the state the driver holds, of the
\* state last streamed by the graph, of the state returned and of every
\* checkpoint is one of processing, planning, continuing, optimizing,
\* collecting_info, waiting_confirmation, completed, terminated.
C27_StatusInDomain ==
    /\ StatusKnown(current_state)
    /\ StatusKnown(final_state)
    /\ StatusKnown(returned)
    /\ \A i \in 1..Len(travel_states) : StatusKnown(travel_states[i].state_data)

\* the user accepted the suggestions: the least common status is held
C27_Witness ==
    /\ proc = "run"
    /\ current_state.status = "optimizing"
    /\ ~IsNone(final_state)
    /\ final_state.status = "waiting_confirmation"

\* node_human_intervention runs in this step, in an interactive run, on a
\* state whose user_confirmed is unset
GateFirstEntry ==
    /\ At("human_intervention")
    /\ ran' = Append(ran, "human_intervention")
    /\ interactive
    /\ Get(final_state.control, "interactive_mode", TRUE)
    /\ ~Get(final_state.control, "user_confirmed", FALSE)

\* the keys the gate writes when it asks for a decision
GateKeys == {"waiting_confirmation", "suggestions", "overspend"}

GateInAutomaticRun ==
    /\ At("human_intervention")
    /\ ran' = Append(ran, "human_intervention")
    /\ proc = "run"
    /\ ~interactive

\* C29: in a run started with interactive = False the interactive_mode flag
\* put into _control at the start is still there, with value false, when
\* node_human_intervention executes, so the node applies the accept decision
\* itself instead of setting waiting_confirmation.
C29_AutomaticModeReachesGate ==
    [][GateInAutomaticRun =>
        /\ "interactive_mode" \in DOMAIN final_state.control
        /\ final_state.control["interactive_mode"] = FALSE
        /\ final_state'.status # "waiting_confirmation"
        /\ Get(final_state'.control, "user_choice", "none") = "accept"
        /\ Get(final_state'.control, "human_intervention_completed", FALSE)
    ]_vars

\* the node_name column of row i
NodeNameOf(i) == travel_states[i].node_name

\* C30: every checkpoint is tagged with the name of a graph node, the node
\* that produced the stored state, so that when the run has stopped the
\* node_name of the latest checkpoint is the node at which it stopped.
C30_CheckpointNamesNode ==
    /\ \A i \in 1..Len(travel_states) : NodeNameOf(i).prefix \in DeclaredNodes
    /\ (pc = "stopped" /\ travel_states # <<>> /\ ran # <<>>)
       => NodeNameOf(Len(travel_states)).prefix = Last(ran)

\* travel_info is there and holds the three required fields
HasTravelInfo(state) ==
    /\ ~IsNone(state.travel_info)
    /\ {"destination", "days", "budget"} \subseteq DOMAIN state.travel_info

\* C31: validate_budget and every node after it is about to run only on a
\* state whose travel_info is present and holds destination, days and
\* budget: in no mode and for no reply does a run whose required fields are
\* missing leave parse_intent for the validation chain.
C31_ValidationNeedsTravelInfo ==
    (pc = "stream" /\ node \notin {"parse_intent", END}) => HasTravelInfo(final_state)

\* the required fields the request does not give
MissingAtStart == SelectSeq(required_fields, LAMBDA f : query[f] = NotProvided)

\* the replies typed so far: the HumanMessages after the request itself
RepliesIn(state) ==
    SelectSeq(Tail(state.messages), LAMBDA m : m.type = "HumanMessage")

\* answers to a question, as opposed to an empty line or the skip command
Answers(replies) == \A i \in 1..Len(replies) : replies[i].content \notin {"", "skip"}

\* parse_intent runs in this step on an answer to its question
AnswerStep ==
    /\ At("parse_intent")
    /\ ran' = Append(ran, "parse_intent")
    /\ interactive
    /\ proc = "run"
    /\ Get(final_state.control, "waiting_input", FALSE)
    /\ Last(final_state.messages).type = "HumanMessage"
    /\ Last(final_state.messages).content \notin {"", "skip"}

\* the answer fills the first missing field and nothing else; with fields
\* still missing the run suspends again, otherwise it goes on to planning
FillsFirstMissing ==
    LET missing == final_state.control["missing"]
        parsed == final_state.control["parsed"]
        filled == Put(parsed, missing[1], Last(final_state.messages).content)
    IN  IF Len(missing) > 1
        THEN /\ final_state'.status = "collecting_info"
             /\ final_state'.control["missing"] = Tail(missing)
             /\ final_state'.control["parsed"] = filled
             /\ IsNone(final_state'.travel_info)
             /\ node' = END
        ELSE /\ final_state'.status = "planning"
             /\ HasTravelInfo(final_state')
             /\ final_state'.travel_info.destination = filled["destination"]
             /\ node' = "validate_budget"

\* after j answers a request with k fields missing has k - j fields missing
\* and is suspended, until the k-th answer completes travel_info
CountsDown ==
    (interactive /\ proc = "run" /\ StreamEnded /\ Answers(RepliesIn(final_state)))
    => LET k == Len(MissingAtStart)
           j == Len(RepliesIn(final_state))
       IN  IF j < k
           THEN /\ final_state.status = "collecting_info"
                /\ final_state.control["missing"] = SubSeq(MissingAtStart, j + 1, k)
                /\ IsNone(final_state.travel_info)
           ELSE j = k /\ HasTravelInfo(final_state)

Runs(n) == At(n) /\ ran' = Append(ran, n)

\* the sum of a cost breakdown
BreakdownSum(b) == b["flight"] + b["hotel"] + b["daily"] + b["other"]

\* node_budget_optimization runs with no cost_analysis yet and the costs it
\* adds up are within the budget
FirstPassWithinBudget ==
    /\ Runs("budget_optimization")
    /\ Falsy(final_state.cost_analysis)
    /\ evaluate_cost(final_state).total_cost <= final_state.travel_info.budget

\* the evaluated analysis is stored as it is and the loop is marked done
StoresEvaluation ==
    LET analysis == final_state'.cost_analysis
        flight == Get(Get(final_state.query_results, "flight", EmptyDict), "price", 0)
        hotel == Get(Get(final_state.query_results, "hotel", EmptyDict), "total_price", 0)
    IN  /\ analysis.is_over_budget = FALSE
        /\ analysis.budget = final_state.travel_info.budget
        /\ analysis.cost_breakdown["flight"] = flight
        /\ analysis.cost_breakdown["hotel"] = hotel
        /\ analysis.total_cost = BreakdownSum(analysis.cost_breakdown)
        /\ analysis.total_cost <= analysis.budget
        /\ analysis.budget_remaining = analysis.budget - analysis.total_cost
        /\ final_state'.control =
               Put(Put(final_state.control, "budget_satisfied", TRUE),
                   "budget_optimization_attempts", 1)
        /\ budget_satisfaction_router(final_state') = "itinerary_optimization"

\* the router after a first pass within the budget
RoutesToItinerary ==
    (/\ Runs("check_budget_satisfaction")
     /\ Get(final_state.control, "budget_optimization_attempts", 0) = 1
     /\ "optimized_cost" \notin DOMAIN final_state.control
     /\ Get(final_state.control, "budget_satisfied", FALSE))
    => node' = "itinerary_optimization"

\* C33: when node_budget_optimization runs with no cost_analysis yet and the
\* evaluated total_cost is at most the budget, it optimizes nothing: it
\* stores the evaluated cost_analysis with is_over_budget false, sets
\* budget_satisfied true and budget_optimization_attempts to 1, and the
\* router after check_budget_satisfaction returns itinerary_optimization.
C33_FirstPassWithinBudget ==
    [][(FirstPassWithinBudget => StoresEvaluation) /\ RoutesToItinerary]_vars

\* the budget loop was left after one pass that reduced nothing
C33_Witness ==
    /\ pc = "stream"
    /\ ran # <<>>
    /\ Last(ran) = "check_budget_satisfaction"
    /\ node = "itinerary_optimization"
    /\ Get(final_state.control, "budget_optimization_attempts", 0) = 1
    /\ "optimized_cost" \notin DOMAIN final_state.control
    /\ final_state.cost_analysis.is_over_budget = FALSE

\* the analysis node_budget_optimization works on: the stored one, or the
\* evaluation of its first pass
AnalysisAtEntry ==
    IF Falsy(final_state.cost_analysis) THEN evaluate_cost(final_state)
    ELSE final_state.cost_analysis

\* node_budget_optimization runs and finds total_cost above five times the budget
SeverelyOverBudget ==
    /\ Runs("budget_optimization")
    /\ AnalysisAtEntry.total_cost > 5 * final_state.travel_info.budget

\* C34: when node_budget_optimization finds total_cost > 5 x budget it sets
\* needs_human_intervention, leaves total_cost and the cost breakdown as
\* they were evaluated, leaves budget_satisfied not true, and the router that
\* follows returns human_intervention on that pass.
C34_SevereOverrunEscalates ==
    [][SeverelyOverBudget =>
        /\ Get(final_state'.control, "needs_human_intervention", FALSE)
        /\ final_state'.cost_analysis.total_cost = AnalysisAtEntry.total_cost
        /\ final_state'.cost_analysis.cost_breakdown = AnalysisAtEntry.cost_breakdown
        /\ ~Get(final_state'.control, "budget_satisfied", FALSE)
        /\ budget_satisfaction_router(node_check_budget_satisfaction(final_state'))
              = "human_intervention"
    ]_vars

\* the first pass found the cost above five times the budget and the router
\* has sent the run to the human gate
C34_Witness ==
    /\ pc = "stream"
    /\ Len(ran) > 1
    /\ Last(ran) = "check_budget_satisfaction"
    /\ node = "human_intervention"
    /\ final_state.cost_analysis.total_cost > 5 * final_state.travel_info.budget
    /\ Get(final_state.control, "budget_optimization_attempts", 0) = 0

\* the stored analysis agrees with the stored total and the budget
AnalysisConsistent(state) ==
    LET cost_analysis == state.cost_analysis
        budget == Get(state.travel_info, "budget", 0)
    IN  /\ cost_analysis["is_over_budget"] <=> cost_analysis["total_cost"] > budget
        /\ Get(state.control, "budget_satisfied", FALSE)
              => cost_analysis["total_cost"] <= budget

\* C35: after every execution of node_budget_optimization the stored
\* cost_analysis is self-consistent: is_over_budget is true exactly when
\* total_cost > budget, and budget_satisfied is true only when the stored
\* total_cost is at most the budget.
C35_AnalysisSelfConsistent ==
    [][(Runs("budget_optimization") /\ ~Falsy(final_state'.cost_analysis))
         => AnalysisConsistent(final_state')]_vars

\* how many times node n has executed in the current run
Executions(n) == Cardinality({i \in DOMAIN ran : ran[i] = n})

\* the itinerary router has just decided, in a run that entered the loop with
\* zero itinerary attempts
ItineraryRouted ==
    /\ pc = "stream"
    /\ Len(ran) > 0
    /\ Last(ran) = "check_itinerary_satisfaction"

EnteredWithZeroAttempts ==
    Get(final_state.control, "itinerary_optimization_attempts", 0)
        = Executions("itinerary_optimization")

\* C36: in a run that enters the itinerary loop with zero itinerary attempts,
\* itinerary_optimization executes exactly twice (score 0.75, then 0.90
\* against the 0.85 threshold) and the router then returns generate_itinerary;
\* the human_intervention branch of itinerary_satisfaction_router is never
\* taken.
C36_ItineraryLoopTwice ==
    ItineraryRouted =>
        /\ node # "human_intervention"
        /\ itinerary_satisfaction_router(final_state) # "human_intervention"
        /\ EnteredWithZeroAttempts =>
              /\ Executions("itinerary_optimization") \in {1, 2}
              /\ Executions("itinerary_optimization") = 1 =>
                    /\ final_state.control["itinerary_score"] = 75
                    /\ node = "itinerary_optimization"
              /\ Executions("itinerary_optimization") = 2 =>
                    /\ final_state.control["itinerary_score"] = 90
                    /\ node = "generate_itinerary"

\* the second pass scored 0.90 and the router chose generate_itinerary
C36_Witness ==
    /\ ItineraryRouted
    /\ EnteredWithZeroAttempts
    /\ Executions("itinerary_optimization") = 2
    /\ final_state.control["itinerary_score"] = 90
    /\ node = "generate_itinerary"

\* the sequential validation chain and the flag each of its nodes sets
ValidationChain ==
    <<"validate_budget", "check_destination", "verify_travel_time", "check_documents">>

ChainFlag ==
    [validate_budget |-> "budget_validated", check_destination |-> "destination_checked",
     verify_travel_time |-> "time_verified", check_documents |-> "documents_checked"]

QueryBranches == {"query_flights", "query_hotels", "query_attractions"}

ChainNodes == {ValidationChain[k] : k \in DOMAIN ValidationChain}

Flagged(state, flag) == IF IsNone(state) THEN FALSE ELSE Get(state.control, flag, FALSE)

\* within one pass of the graph the chain runs in order, each node once, and
\* a query branch runs only after validation_completed was set
ChainInOrder ==
    /\ \A k \in DOMAIN ValidationChain : Executions(ValidationChain[k]) <= 1
    /\ \A i \in DOMAIN ran : \A k \in 2..Len(ValidationChain) :
          ran[i] = ValidationChain[k] => (i > 1 /\ ran[i - 1] = ValidationChain[k - 1])
    /\ \A i \in DOMAIN ran :
          ran[i] \in QueryBranches =>
              /\ Flagged(final_state, "validation_completed")
              /\ \A j \in DOMAIN ran : ran[j] \in ChainNodes => j < i

\* a node of the chain sets its flag, and does not run when the flag is set
RunsOnce ==
    \A k \in DOMAIN ValidationChain :
        Runs(ValidationChain[k]) =>
            /\ ~Flagged(final_state, ChainFlag[ValidationChain[k]])
            /\ Flagged(final_state', ChainFlag[ValidationChain[k]])

\* within one run the flags of the chain, once set, stay set
FlagsKept ==
    resumes' = resumes =>
        \A flag \in ChainNodes \cup {"validation_completed"} :
            LET name == IF flag = "validation_completed" THEN flag ELSE ChainFlag[flag]
            IN  Flagged(final_state, name) => Flagged(final_state', name)

Escalated(state) == Flagged(state, "needs_human_intervention")

\* node_human_intervention has executed: it leaves waiting_confirmation or
\* human_intervention_completed in _control
GateExecuted(state) ==
    \/ Flagged(state, "waiting_confirmation")
    \/ Flagged(state, "human_intervention_completed")

\* C38: if _control.needs_human_intervention is set at any point of a run,
\* node_human_intervention executes before that run reaches status
\* completed; no run generates an itinerary while an escalation it raised is
\* still unhandled.
C38_EscalationReachesGate ==
    /\ [](((pc = "stream" /\ ~IsNone(final_state) /\ final_state.status = "completed")
            /\ Escalated(final_state)) => GateExecuted(final_state))
    /\ [][(Runs("generate_itinerary") /\ Escalated(final_state))
            => GateExecuted(final_state)]_vars

\* the status stored in the checkpoint that resume_session would load
LatestStatus == get_latest_state(travel_states).state_data.status

\* C11: a run whose latest state is suspended (collecting_info or
\* waiting_confirmation) stays resumable: its session keeps status active, so
\* list_active_sessions returns it, until the run is completed or terminated;
\* a resume that stops again at a suspended status does not mark it completed.
C11_SuspensionDurable ==
    (travel_states # <<>> /\ LatestStatus \in Suspended) => session = "active"

====
